---- MODULE Spec2Model ----
(***************************************************************************)
(* MCP over MQTT SDK: the client peer (src/src/client/mcp-client.ts), the  *)
(* server peer (src/src/index.ts, class McpMqttServer at lines 354-825),   *)
(* the transport adapter and a broker between them.                        *)
(*                                                                         *)
(* A topic is the sequence of its '/'-separated segments; a payload is a   *)
(* record whose field raw says what JSON.parse and trim() make of it.      *)
(* Every action is one run of a handler or API call from one suspension    *)
(* point (an awaited transport operation) to the next.                     *)
(*                                                                         *)
(* A SUBSCRIBE, UNSUBSCRIBE or PUBLISH takes effect at the broker in the   *)
(* step that issues it, and the continuation of the await is a later step; *)
(* the end of a connection (adapter.disconnect) is one step.  The broker   *)
(* is the MQTT 5 behaviour the SDK relies on (retained messages, No Local, *)
(* clean sessions, will); it is not code of this repository.  The will of  *)
(* the server repeats the retained clear stop() has just published and is  *)
(* left out.  A tool or resource handler the dispatcher awaits settles in   *)
(* the turn that calls it.  pubs, events and thrown hold what the last     *)
(* step published, emitted and threw; presenceLog, goneOffline,            *)
(* handlerRan and listed are history.  The request id 0 stands for the ids *)
(* JavaScript takes as false (0 and the empty string).  call and ret hold  *)
(* the arguments and the result of a constructor or of a function of       *)
(* src/src/shared/utils.ts applied on its own.                             *)
(***************************************************************************)
EXTENDS Integers, Sequences, FiniteSets, TLC

\* ---------------------------------------------------------------- bounds
MaxReq == 2        \* requests the client creates in one run
MaxStart == 2      \* start() calls on the server object
TickMs == 30000    \* granularity of the passage of time
MaxHandlers == 2   \* handlers of the server suspended at the same time
MaxListReq == 3    \* requests of a client that lists the tools twice

\* ------------------------------------------------------------ identities
ServerId == "S1"
ClientId == "C1"
ServerIds == {"S1"}
ServerName == <<"demo", "calc">>
OtherName == <<"other", "x">>

CompType == "MCP-COMPONENT-TYPE"
CompId == "MCP-MQTT-CLIENT-ID"

NoId == -1
NoError == 0

\* ------------------------------------------------------------- payloads
\* JSON.stringify of a JSON-RPC envelope, as the receiver's JSON.parse sees it.
Json(id, method, result, error) ==
  [raw |-> "json", jsonrpc |-> "2.0", id |-> id, method |-> method,
   result |-> result, error |-> error, emsg |-> "", params |-> <<>>,
   list |-> {}]

\* The empty string, a whitespace-only string and a string JSON.parse rejects.
Raw(kind) ==
  [raw |-> kind, jsonrpc |-> "", id |-> NoId, method |-> "",
   result |-> "", error |-> NoError, emsg |-> "", params |-> <<>>,
   list |-> {}]

\* JSON.stringify of the notifications/server/online notification
OnlinePayload(name) ==
  [Json(NoId, "notifications/server/online", "", NoError) EXCEPT !.params = name]

\* !message.trim()
TrimIsEmpty(p) == p.raw \in {"empty", "blank"}

\* JSON.parse(message) succeeds
Parses(p) == p.raw = "json"

\* JavaScript truthiness of parsedMessage.id / parsedMessage.method
IdTruthy(p) == p.id # NoId /\ p.id # 0
MethodTruthy(p) == p.method # ""

\* ----------------------------------------------------------------- topics
PresenceFilter(f) == <<"$mcp-server", "presence", "+">> \o f
CapabilityFilter(f) == <<"$mcp-server", "capability", "+">> \o f
ClientRpcFilter(cid, f) == <<"$mcp-rpc", cid, "+">> \o f
ControlTopic(sid, name) == <<"$mcp-server", sid>> \o name
CapabilityTopic(sid, name) == <<"$mcp-server", "capability", sid>> \o name
PresenceTopic(sid, name) == <<"$mcp-server", "presence", sid>> \o name
RpcPattern(sid, name) == <<"$mcp-rpc", "+", sid>> \o name
RpcTopic(cid, sid, name) == <<"$mcp-rpc", cid, sid>> \o name
ClientCapabilityTopic(cid) == <<"$mcp-client", "capability", cid>>
ClientPresenceTopic(cid) == <<"$mcp-client", "presence", cid>>

\* topic.startsWith(prefix + '/') for a prefix of whole segments
StartsWith(topic, prefix) ==
  /\ Len(topic) > Len(prefix)
  /\ SubSeq(topic, 1, Len(prefix)) = prefix

\* topic.split('/')[i] with JavaScript's 0-based index; "" stands for undefined
Part(topic, i) == IF i + 1 <= Len(topic) THEN topic[i + 1] ELSE ""

\* ----------------------------------------------------------------- broker
Peers == {"server", "client"}

RECURSIVE TopicMatches(_, _)
TopicMatches(f, t) ==
  IF f = <<>> THEN t = <<>>
  ELSE IF Head(f) = "#" THEN TRUE
  ELSE IF t = <<>> THEN FALSE
  ELSE (Head(f) = "+" \/ Head(f) = Head(t)) /\ TopicMatches(Tail(f), Tail(t))

Receives(b, peer, pkt) ==
  \E s \in b.subs[peer] :
    TopicMatches(s.filter, pkt.topic) /\ ~(s.nl /\ pkt.from = peer)

\* A PUBLISH reaching the broker: kept or cleared as the topic's retained
\* message, and queued for every peer with a matching subscription.
BrokerPublish(b, pkt) ==
  [b EXCEPT
     !.retained =
        IF ~pkt.retain THEN @
        ELSE {r \in @ : r.topic # pkt.topic}
             \cup (IF pkt.payload.raw = "empty" THEN {} ELSE {pkt}),
     !.inbox = [p \in Peers |->
                  IF Receives(b, p, pkt) THEN Append(@[p], pkt) ELSE @[p]]]

RECURSIVE SeqOfSet(_)
SeqOfSet(S) ==
  IF S = {} THEN <<>>
  ELSE LET x == CHOOSE y \in S : TRUE IN <<x>> \o SeqOfSet(S \ {x})

\* A SUBSCRIBE reaching the broker: active from now on; the retained messages
\* it matches are queued for the subscriber.
BrokerSubscribe(b, peer, filter, nl) ==
  [b EXCEPT
     !.subs[peer] = @ \cup {[filter |-> filter, nl |-> nl]},
     !.inbox[peer] =
        @ \o SeqOfSet({r \in b.retained : TopicMatches(filter, r.topic)})]

BrokerUnsubscribe(b, peer, filter) ==
  [b EXCEPT !.subs[peer] = {s \in @ : s.filter # filter}]

\* The session ends: its subscriptions go (clean session, session expiry 0).
BrokerDisconnect(b, peer) ==
  [b EXCEPT !.subs[peer] = {}, !.inbox[peer] = <<>>]

\* ------------------------------------------------------ transport adapter
\* What the MQTT client sends for publish(topic, body, {retain, userProperties}).
Packet(from, topic, payload, retain, props) ==
  [from |-> from, topic |-> topic, payload |-> payload,
   retain |-> retain, props |-> props]

VARIABLES
  broker,             \* [subs, retained, inbox]
  adapter,            \* [peer -> BOOLEAN]: UniversalMqttAdapter.client # null
  pubs,               \* the packets the last step handed to its MQTT client
  events,             \* the events the last step emitted
  thrown,             \* the error the last API call or continuation raised, or ""
  \* ------------------------------------------------------------- client
  cPc,                \* where connect() stands
  serverNameFilter,
  discoveredServers,  \* [server ids -> serverName]
  connectedServers,   \* [server ids -> serverName]
  pendingRequests,    \* the keys of the pendingRequests map
  reqs,               \* every request created so far, by id
  dPc,                \* where disconnect() stands
  dSeen,              \* the connectedServers entries disconnect() has visited
  goneOffline         \* history: the servers whose empty presence message came
                      \* while they were in connectedServers, until they are
                      \* online again
  ,
  \* ------------------------------------------------------------- server
  sPc,                \* where start() stands
  stopPc,             \* where stop() stands
  starts,             \* start() calls so far
  listChanged,        \* config.capabilities: [tools, resources -> BOOLEAN]
  isInitialized,
  connectedClients,
  tools,
  resources,
  handlers,           \* the message handlers suspended at an await
  presenceLog,        \* what the server has published to its presence topic
  handlerRan,         \* history: what the tool or resource handler that the
                      \* dispatcher called last did
  listed              \* history: current, the ids of the tools/list requests
                      \* answered since the last tool() registration, and
                      \* pairs, the <<i, j>> answered in this order with no
                      \* registration between them
  ,
  \* ------------------------------------- constructors and pure functions
  call,               \* the function applied and its arguments
  ret                 \* what it returned or threw; NoRet before it has run

brokerVars == <<broker, adapter>>
outVars == <<pubs, events, thrown>>
clientVars == <<cPc, serverNameFilter, discoveredServers, connectedServers,
                pendingRequests, reqs, dPc, dSeen, goneOffline>>
serverVars == <<sPc, stopPc, starts, listChanged, isInitialized,
                connectedClients, tools, resources, handlers, presenceLog,
                handlerRan, listed>>
utilVars == <<call, ret>>
vars == <<brokerVars, outVars, clientVars, serverVars, utilVars>>

Event(name, sid, method) == [name |-> name, sid |-> sid, method |-> method]

\* UniversalMqttAdapter.publish: rejected when there is no MQTT client, else
\* the packet is handed to it.
PublishOn(b, pkt) ==
  /\ pubs' = IF adapter[pkt.from] THEN <<pkt>> ELSE <<>>
  /\ broker' = IF adapter[pkt.from] THEN BrokerPublish(b, pkt) ELSE b

Publish(pkt) == PublishOn(broker, pkt)

\* ================================================================ client
ClientProps == (CompType :> "mcp-client") @@ (CompId :> ClientId)

\* A CONNACK user property as handleBrokerSuggestions sees it: whether it is
\* there, what JSON.parse and Array.isArray make of it, and the elements of the
\* array (an element that is no string is written as a template literal
\* prints it, 1 as "1").
ConnackProp(present, parses, array, strings, items, value) ==
  [present |-> present, parses |-> parses, array |-> array,
   strings |-> strings, items |-> items, value |-> value]

\* no property; ["other/#"]; []; "other/#"; [1]; a string JSON.parse rejects
NoProp == ConnackProp(FALSE, FALSE, FALSE, FALSE, <<>>, "")
FiltersOther == ConnackProp(TRUE, TRUE, TRUE, TRUE, << <<"other", "#">> >>, "")
FilterProps ==
  {NoProp, FiltersOther,
   ConnackProp(TRUE, TRUE, TRUE, TRUE, <<>>, ""),
   ConnackProp(TRUE, TRUE, FALSE, FALSE, <<>>, ""),
   ConnackProp(TRUE, TRUE, TRUE, FALSE, << <<"1">> >>, ""),
   ConnackProp(TRUE, FALSE, FALSE, FALSE, <<>>, "")}

\* no property; {"role":"reader"}; a string JSON.parse rejects
RbacProps ==
  {NoProp,
   ConnackProp(TRUE, TRUE, FALSE, FALSE, <<>>, "reader"),
   ConnackProp(TRUE, FALSE, FALSE, FALSE, <<>>, "")}

\* The user properties of the CONNACK the adapter keeps for getConnackProperties
Connacks == [filters : FilterProps, rbac : RbacProps]

\* A broker that suggests nothing, and one that suggests the filter other/#
SessionConnacks ==
  {[filters |-> NoProp, rbac |-> NoProp], [filters |-> FiltersOther, rbac |-> NoProp]}

\* handleBrokerSuggestions: one try block around both properties, so that a
\* JSON.parse that throws on the first skips the second
handleBrokerSuggestions(connack, filter) ==
  LET f == connack.filters
      r == connack.rbac
      filtersThrow == f.present /\ ~f.parses
  IN
  [serverNameFilter |->
     IF f.present /\ f.parses /\ f.array /\ Len(f.items) > 0
     THEN f.items[1] ELSE filter,
   events |->
     IF ~filtersThrow /\ r.present /\ r.parses
     THEN <<[name |-> "brokerRbacInfo", sid |-> "", method |-> r.value]>>
     ELSE <<>>]

\* The table of getRequestTimeout
timeouts ==
  ("initialize" :> 30000) @@ ("ping" :> 10000) @@ ("roots/list" :> 30000) @@
  ("resources/list" :> 30000) @@ ("tools/list" :> 30000) @@
  ("prompts/list" :> 30000) @@ ("prompts/get" :> 30000) @@
  ("sampling/createMessage" :> 60000) @@ ("resources/read" :> 30000) @@
  ("resources/templates/list" :> 30000) @@ ("resources/subscribe" :> 30000) @@
  ("tools/call" :> 60000) @@ ("completion/complete" :> 60000) @@
  ("logging/setLevel" :> 30000)

\* A timeout that is the same for every method
getRequestTimeoutDefault(method) == 30000

\* timeouts[method] || 30000
getRequestTimeout(method) ==
  IF method \in DOMAIN timeouts THEN timeouts[method] ELSE 30000

\* A completion slot that a later resolve or reject overwrites
SettleOverwrites(req, outcome, detail) ==
  [req EXCEPT !.outcome = outcome, !.detail = detail]

\* A promise settles once: resolve and reject after that do nothing.
Settle(req, outcome, detail) ==
  IF req.outcome = "none"
  THEN [req EXCEPT !.outcome = outcome, !.detail = detail]
  ELSE req

NoDetail == [method |-> "", ms |-> 0, code |-> NoError, list |-> {}]

\* connect(): the MQTT client is created and the CONNACK awaited
ClientConnect ==
  /\ cPc = "idle"
  /\ cPc' = "connecting"
  /\ adapter' = [adapter EXCEPT !["client"] = TRUE]
  /\ pubs' = <<>> /\ events' = <<>> /\ thrown' = ""
  /\ UNCHANGED <<broker, serverNameFilter, discoveredServers,
                 connectedServers, pendingRequests, reqs, dPc, dSeen,
                 goneOffline, serverVars, utilVars>>

\* adapter.subscribe inside connect(): rejected without an MQTT client
ClientSubscribeStep(filter, nl, next) ==
  /\ pubs' = <<>>
  /\ IF adapter["client"]
     THEN /\ broker' = BrokerSubscribe(broker, "client", filter, nl)
          /\ cPc' = next /\ events' = <<>> /\ thrown' = ""
     ELSE /\ broker' = broker
          /\ cPc' = "failed"
          /\ events' = <<Event("error", "", "")>>
          /\ thrown' = "MQTT client not connected"

\* connect() after CONNACK: handleBrokerSuggestions, the message listener, and
\* the first subscription
ClientConnected(connack) ==
  LET suggested == handleBrokerSuggestions(connack, serverNameFilter) IN
  /\ cPc = "connecting"
  /\ serverNameFilter' = suggested.serverNameFilter
  /\ pubs' = <<>>
  /\ IF adapter["client"]
     THEN /\ broker' = BrokerSubscribe(broker, "client",
                                       PresenceFilter(serverNameFilter'), FALSE)
          /\ cPc' = "sub_capability"
          /\ events' = suggested.events /\ thrown' = ""
     ELSE /\ broker' = broker
          /\ cPc' = "failed"
          /\ events' = suggested.events \o <<[name |-> "error", sid |-> "", method |-> ""]>>
          /\ thrown' = "MQTT client not connected"
  /\ UNCHANGED <<adapter, discoveredServers, connectedServers,
                 pendingRequests, reqs, dPc, dSeen,
                 goneOffline, serverVars, utilVars>>

ClientSubscribeCapability ==
  /\ cPc = "sub_capability"
  /\ ClientSubscribeStep(CapabilityFilter(serverNameFilter), FALSE, "sub_rpc")
  /\ UNCHANGED <<adapter, serverNameFilter, discoveredServers,
                 connectedServers, pendingRequests, reqs, dPc, dSeen,
                 goneOffline, serverVars, utilVars>>

ClientSubscribeRpc ==
  /\ cPc = "sub_rpc"
  /\ ClientSubscribeStep(ClientRpcFilter(ClientId, serverNameFilter), TRUE, "discover")
  /\ UNCHANGED <<adapter, serverNameFilter, discoveredServers,
                 connectedServers, pendingRequests, reqs, dPc, dSeen,
                 goneOffline, serverVars, utilVars>>

\* connect(): discoverServers() and emit('connected')
ClientConnectDone ==
  /\ cPc = "discover"
  /\ cPc' = "ready"
  /\ pubs' = <<>> /\ events' = <<Event("connected", "", "")>> /\ thrown' = ""
  /\ UNCHANGED <<brokerVars, serverNameFilter, discoveredServers,
                 connectedServers, pendingRequests, reqs, dPc, dSeen,
                 goneOffline, serverVars, utilVars>>

\* sendRequest: the timer, the registry entry and the publish; a publish the
\* adapter rejects at once runs the catch handler in the same turn
NewRequest(method, sid, name) ==
  [method |-> method, sid |-> sid, name |-> name, elapsed |-> 0,
   timer |-> IF adapter["client"] THEN "armed" ELSE "cleared",
   pub |-> IF adapter["client"] THEN "inflight" ELSE "rejected",
   outcome |-> IF adapter["client"] THEN "none" ELSE "publish_failed",
   detail |-> NoDetail,
   cont |-> IF method # "initialize" THEN "none"
            ELSE IF adapter["client"] THEN "await" ELSE "threw"]

RequestParams(method) ==
  CASE method = "initialize" -> <<"init">>
    [] method = "tools/call" -> <<"add">>
    [] method = "resources/read" -> <<"res">>
    [] OTHER -> <<>>

sendRequest(topic, method, sid, name) ==
  LET id == Len(reqs) + 1 IN
  /\ reqs' = Append(reqs, NewRequest(method, sid, name))
  /\ pendingRequests' = IF adapter["client"] THEN pendingRequests \cup {id}
                        ELSE pendingRequests
  /\ Publish(Packet("client", topic,
                    [Json(id, method, "", NoError) EXCEPT !.params = RequestParams(method)],
                    FALSE, ClientProps))
  /\ events' = <<>>
  /\ thrown' = IF adapter["client"] THEN "" ELSE "MQTT client not connected"

\* An initializeServer that does not look the server up in discoveredServers
initializeServerUnchecked(sid) ==
  /\ cPc = "ready"
  /\ Len(reqs) < MaxReq
  /\ sendRequest(ControlTopic(sid, ServerName), "initialize", sid, ServerName)
  /\ UNCHANGED <<adapter, cPc, serverNameFilter, discoveredServers,
                 connectedServers, dPc, dSeen,
                 goneOffline, serverVars, utilVars>>

initializeServer(sid) ==
  /\ cPc = "ready"
  /\ IF sid \notin DOMAIN discoveredServers
     THEN /\ thrown' = "Server not discovered"
          /\ pubs' = <<>> /\ events' = <<>>
          /\ UNCHANGED <<broker, reqs, pendingRequests>>
     ELSE /\ Len(reqs) < MaxReq
          /\ sendRequest(ControlTopic(sid, discoveredServers[sid]), "initialize",
                         sid, discoveredServers[sid])
  /\ UNCHANGED <<adapter, cPc, serverNameFilter, discoveredServers,
                 connectedServers, dPc, dSeen,
                 goneOffline, serverVars, utilVars>>

\* initializeServer of a client that was constructed without config.name:
\* clientInfo.name is undefined and JSON.stringify leaves it out of the request
initializeServerNameless(sid) ==
  /\ cPc = "ready"
  /\ IF sid \notin DOMAIN discoveredServers
     THEN /\ thrown' = "Server not discovered"
          /\ pubs' = <<>> /\ events' = <<>>
          /\ UNCHANGED <<broker, reqs, pendingRequests>>
     ELSE LET id == Len(reqs) + 1
              name == discoveredServers[sid]
          IN
          /\ Len(reqs) < MaxReq
          /\ reqs' = Append(reqs, NewRequest("initialize", sid, name))
          /\ pendingRequests' = IF adapter["client"] THEN pendingRequests \cup {id}
                                ELSE pendingRequests
          /\ Publish(Packet("client", ControlTopic(sid, name),
                            [Json(id, "initialize", "", NoError)
                               EXCEPT !.params = <<"init", "no clientInfo.name">>],
                            FALSE, ClientProps))
          /\ events' = <<>>
          /\ thrown' = IF adapter["client"] THEN "" ELSE "MQTT client not connected"
  /\ UNCHANGED <<adapter, cPc, serverNameFilter, discoveredServers,
                 connectedServers, dPc, dSeen,
                 goneOffline, serverVars, utilVars>>

RpcMethods == {"tools/call", "ping"}

\* A sendRpcRequest that looks the server up in discoveredServers
sendRpcRequestViaDiscovered(method, sid) ==
  /\ cPc = "ready"
  /\ IF sid \notin DOMAIN discoveredServers
     THEN /\ thrown' = "Server not connected"
          /\ pubs' = <<>> /\ events' = <<>>
          /\ UNCHANGED <<broker, reqs, pendingRequests>>
     ELSE /\ Len(reqs) < MaxReq
          /\ sendRequest(RpcTopic(ClientId, sid, discoveredServers[sid]), method,
                         sid, discoveredServers[sid])
  /\ UNCHANGED <<adapter, cPc, serverNameFilter, discoveredServers,
                 connectedServers, dPc, dSeen,
                 goneOffline, serverVars, utilVars>>

\* listTools, callTool, listResources, readResource, ping through sendRpcRequest
sendRpcRequest(method, sid) ==
  /\ cPc = "ready"
  /\ IF sid \notin DOMAIN connectedServers
     THEN /\ thrown' = "Server not connected"
          /\ pubs' = <<>> /\ events' = <<>>
          /\ UNCHANGED <<broker, reqs, pendingRequests>>
     ELSE /\ Len(reqs) < MaxReq
          /\ sendRequest(RpcTopic(ClientId, sid, connectedServers[sid]), method,
                         sid, connectedServers[sid])
  /\ UNCHANGED <<adapter, cPc, serverNameFilter, discoveredServers,
                 connectedServers, dPc, dSeen,
                 goneOffline, serverVars, utilVars>>

\* listTools(serverId): a tools/list request through sendRpcRequest
listTools(sid) ==
  /\ cPc = "ready"
  /\ IF sid \notin DOMAIN connectedServers
     THEN /\ thrown' = "Server not connected"
          /\ pubs' = <<>> /\ events' = <<>>
          /\ UNCHANGED <<broker, reqs, pendingRequests>>
     ELSE /\ Len(reqs) < MaxListReq
          /\ sendRequest(RpcTopic(ClientId, sid, connectedServers[sid]), "tools/list",
                         sid, connectedServers[sid])
  /\ UNCHANGED <<adapter, cPc, serverNameFilter, discoveredServers,
                 connectedServers, dPc, dSeen,
                 goneOffline, serverVars, utilVars>>

\* A timer callback that rejects but leaves the registry entry in place
OnTimeoutKeepsEntry(id) ==
  /\ pendingRequests' = pendingRequests
  /\ reqs' = [reqs EXCEPT ![id] =
       [Settle(@, "timeout",
               [method |-> @.method, ms |-> getRequestTimeout(@.method),
                code |-> NoError, list |-> {}])
          EXCEPT !.timer = "fired",
                 !.cont = IF @ = "await" THEN "threw" ELSE @]]
  /\ pubs' = <<>> /\ events' = <<>> /\ thrown' = ""
  /\ UNCHANGED broker

\* The setTimeout callback of sendRequest
OnTimeout(id) ==
  /\ pendingRequests' = pendingRequests \ {id}
  /\ reqs' = [reqs EXCEPT ![id] =
       [Settle(@, "timeout",
               [method |-> @.method, ms |-> getRequestTimeout(@.method),
                code |-> NoError, list |-> {}])
          EXCEPT !.timer = "fired",
                 !.cont = IF @ = "await" THEN "threw" ELSE @]]
  /\ pubs' = <<>> /\ events' = <<>> /\ thrown' = ""
  /\ UNCHANGED broker

\* setTimeout(..., timeoutMs): the callback runs no earlier than timeoutMs
\* after the timer was set, unless clearTimeout came first
TimerFire(id) ==
  /\ id \in 1..Len(reqs)
  /\ reqs[id].timer = "armed"
  /\ reqs[id].elapsed >= getRequestTimeout(reqs[id].method)
  /\ OnTimeout(id)
  /\ UNCHANGED <<adapter, cPc, serverNameFilter, discoveredServers,
                 connectedServers, dPc, dSeen,
                 goneOffline, serverVars, utilVars>>

\* Time passes for every running timer that is not yet due.
Tick ==
  /\ \E id \in 1..Len(reqs) :
       reqs[id].timer = "armed" /\ reqs[id].elapsed < getRequestTimeout(reqs[id].method)
  /\ reqs' = [id \in 1..Len(reqs) |->
       IF reqs[id].timer = "armed"
          /\ reqs[id].elapsed < getRequestTimeout(reqs[id].method)
       THEN [reqs[id] EXCEPT !.elapsed = @ + TickMs]
       ELSE reqs[id]]
  /\ pubs' = <<>> /\ events' = <<>> /\ thrown' = ""
  /\ UNCHANGED <<brokerVars, cPc, serverNameFilter, discoveredServers,
                 connectedServers, pendingRequests, dPc, dSeen,
                 goneOffline, serverVars, utilVars>>

\* The catch handler of sendRequest's publish
OnPublishError(id) ==
  /\ pendingRequests' = pendingRequests \ {id}
  /\ reqs' = [reqs EXCEPT ![id] =
       [Settle(@, "publish_failed", NoDetail)
          EXCEPT !.pub = "failed",
                 !.timer = IF @ = "armed" THEN "cleared" ELSE @,
                 !.elapsed = IF reqs[id].timer = "armed" THEN 0 ELSE @,
                 !.cont = IF @ = "await" THEN "threw" ELSE @]]
  /\ pubs' = <<>> /\ events' = <<>> /\ thrown' = ""
  /\ UNCHANGED broker

\* The MQTT client reports the publish of request id as failed.
PublishFail(id) ==
  /\ id \in 1..Len(reqs)
  /\ reqs[id].pub = "inflight"
  /\ OnPublishError(id)
  /\ UNCHANGED <<adapter, cPc, serverNameFilter, discoveredServers,
                 connectedServers, dPc, dSeen,
                 goneOffline, serverVars, utilVars>>

\* A map without key k / with key k set to v
MapDelete(m, k) == [x \in DOMAIN m \ {k} |-> m[x]]
MapSet(m, k, v) == [x \in DOMAIN m \cup {k} |-> IF x = k THEN v ELSE m[x]]

\* A presence check that takes a blank payload for the online notification
IsServerOnlineWhenBlank(p) == TrimIsEmpty(p)

\* ServerOnlineNotificationSchema.parse(JSON.parse(message)) succeeds
IsServerOnline(p) ==
  /\ Parses(p)
  /\ p.jsonrpc = "2.0"
  /\ p.method = "notifications/server/online"
  /\ p.params # <<>>

\* DisconnectedNotificationSchema.parse(parsedMessage) succeeds
IsDisconnected(p) ==
  /\ p.jsonrpc = "2.0"
  /\ p.method = "notifications/disconnected"

\* A handleServerPresence that rejects the pending requests to a server with
\* the empty presence message of that server
handleServerPresenceFailsPending(b, topic, p) ==
  LET serverId == Part(topic, 2)
      lost == IF Len(topic) >= 4 /\ serverId # "" /\ TrimIsEmpty(p)
              THEN {id \in pendingRequests : reqs[id].sid = serverId}
              ELSE {}
  IN
  /\ pubs' = <<>> /\ thrown' = "" /\ broker' = b
  /\ pendingRequests' = pendingRequests \ lost
  /\ reqs' = [id \in 1..Len(reqs) |->
       IF id \in lost
       THEN [Settle(reqs[id], "cancelled", NoDetail)
               EXCEPT !.timer = IF @ = "armed" THEN "cleared" ELSE @,
                      !.elapsed = IF reqs[id].timer = "armed" THEN 0 ELSE @,
                      !.cont = IF @ = "await" THEN "threw" ELSE @]
       ELSE reqs[id]]
  /\ IF Len(topic) < 4 \/ serverId = ""
     THEN /\ events' = <<>>
          /\ UNCHANGED <<discoveredServers, connectedServers, dSeen>>
     ELSE IF TrimIsEmpty(p)
     THEN /\ discoveredServers' = MapDelete(discoveredServers, serverId)
          /\ connectedServers' = MapDelete(connectedServers, serverId)
          /\ dSeen' = dSeen \ {serverId}
          /\ events' = <<Event("serverDisconnected", serverId, "")>>
     ELSE IF IsServerOnline(p)
     THEN /\ discoveredServers' = MapSet(discoveredServers, serverId, p.params)
          /\ events' = <<Event("serverDiscovered", serverId, "")>>
          /\ UNCHANGED <<connectedServers, dSeen>>
     ELSE /\ events' = <<>>
          /\ UNCHANGED <<discoveredServers, connectedServers, dSeen>>

handleServerPresence(b, topic, p) ==
  LET serverId == Part(topic, 2) IN
  /\ pubs' = <<>> /\ thrown' = "" /\ broker' = b
  /\ UNCHANGED <<pendingRequests, reqs>>
  /\ IF Len(topic) < 4 \/ serverId = ""
     THEN /\ events' = <<>>
          /\ UNCHANGED <<discoveredServers, connectedServers, dSeen>>
     ELSE IF TrimIsEmpty(p)
     THEN /\ discoveredServers' = MapDelete(discoveredServers, serverId)
          /\ connectedServers' = MapDelete(connectedServers, serverId)
          /\ dSeen' = dSeen \ {serverId}
          /\ events' = <<Event("serverDisconnected", serverId, "")>>
     ELSE IF IsServerOnline(p)
     THEN /\ discoveredServers' = MapSet(discoveredServers, serverId, p.params)
          /\ events' = <<Event("serverDiscovered", serverId, "")>>
          /\ UNCHANGED <<connectedServers, dSeen>>
     ELSE /\ events' = <<>>
          /\ UNCHANGED <<discoveredServers, connectedServers, dSeen>>

handleServerCapabilityChange(b, topic, p) ==
  LET serverId == Part(topic, 2) IN
  /\ pubs' = <<>> /\ thrown' = "" /\ broker' = b
  /\ events' = IF Len(topic) < 4 \/ serverId = "" \/ ~Parses(p) THEN <<>>
               ELSE <<Event("serverCapabilityChanged", serverId, p.method)>>
  /\ UNCHANGED <<pendingRequests, reqs, discoveredServers,
                 connectedServers, dSeen>>

\* handleRpcMessage, first branch: the response to a pending request, and the
\* part of initializeServer that runs when its awaited promise settles
OnResponse(b, p) ==
  LET id == p.id
      req == reqs[id]
      ok == p.error = NoError
      settled == [Settle(req, IF ok THEN "success" ELSE "mcp_error",
                         [method |-> "", ms |-> 0, code |-> p.error,
                          list |-> p.list])
                    EXCEPT !.timer = IF @ = "armed" THEN "cleared" ELSE @,
                           !.elapsed = IF req.timer = "armed" THEN 0 ELSE @]
      resumes == req.cont = "await"
      init == resumes /\ ok /\ p.result = "init"
  IN
  /\ pendingRequests' = pendingRequests \ {id}
  /\ events' = <<>>
  /\ UNCHANGED <<discoveredServers, dSeen>>
  /\ IF init
     THEN /\ connectedServers' = MapSet(connectedServers, req.sid, req.name)
          /\ PublishOn(b, Packet("client", RpcTopic(ClientId, req.sid, req.name),
                               Json(NoId, "notifications/initialized", "", NoError),
                               FALSE, ClientProps))
          /\ reqs' = [reqs EXCEPT ![id] =
               [settled EXCEPT !.cont = IF adapter["client"] THEN "notified"
                                        ELSE "threw"]]
          /\ thrown' = IF adapter["client"] THEN "" ELSE "MQTT client not connected"
     ELSE /\ UNCHANGED connectedServers
          /\ pubs' = <<>> /\ broker' = b
          /\ reqs' = [reqs EXCEPT ![id] =
               [settled EXCEPT !.cont = IF resumes THEN "threw" ELSE @]]
          /\ thrown' = IF resumes /\ ok THEN "TypeError" ELSE ""

\* A handleRpcMessage that reports every message it cannot match, with or
\* without a method
handleRpcMessageReportsUnmatched(b, topic, p) ==
  LET serverId == Part(topic, 2) IN
  IF ~Parses(p)
  THEN /\ pubs' = <<>> /\ events' = <<>> /\ thrown' = "" /\ broker' = b
       /\ UNCHANGED <<pendingRequests, reqs, discoveredServers,
                      connectedServers, dSeen>>
  ELSE IF IdTruthy(p) /\ p.id \in pendingRequests
  THEN OnResponse(b, p)
  ELSE /\ pubs' = <<>> /\ thrown' = "" /\ broker' = b
       /\ UNCHANGED <<pendingRequests, reqs, discoveredServers>>
       /\ IF MethodTruthy(p) /\ p.method = "notifications/disconnected"
             /\ IsDisconnected(p) /\ Len(topic) >= 3 /\ serverId # ""
          THEN /\ connectedServers' = MapDelete(connectedServers, serverId)
               /\ dSeen' = dSeen \ {serverId}
               /\ events' = <<Event("serverDisconnected", serverId, "")>>
          ELSE /\ UNCHANGED <<connectedServers, dSeen>>
               /\ events' = <<Event("serverNotification", "", p.method)>>

\* A handleRpcMessage that takes a response only from the topic of the server
\* the request was sent to
handleRpcMessageSameServer(b, topic, p) ==
  LET serverId == Part(topic, 2) IN
  IF ~Parses(p)
  THEN /\ pubs' = <<>> /\ events' = <<>> /\ thrown' = "" /\ broker' = b
       /\ UNCHANGED <<pendingRequests, reqs, discoveredServers,
                      connectedServers, dSeen>>
  ELSE IF IdTruthy(p) /\ p.id \in pendingRequests /\ reqs[p.id].sid = serverId
  THEN OnResponse(b, p)
  ELSE /\ pubs' = <<>> /\ thrown' = "" /\ broker' = b /\ events' = <<>>
       /\ UNCHANGED <<pendingRequests, reqs, discoveredServers,
                      connectedServers, dSeen>>

\* A handleRpcMessage that forgets the server a disconnected notification names
handleRpcMessageForgetsServer(b, topic, p) ==
  LET serverId == Part(topic, 2) IN
  IF ~Parses(p)
  THEN /\ pubs' = <<>> /\ events' = <<>> /\ thrown' = "" /\ broker' = b
       /\ UNCHANGED <<pendingRequests, reqs, discoveredServers,
                      connectedServers, dSeen>>
  ELSE IF IdTruthy(p) /\ p.id \in pendingRequests
  THEN OnResponse(b, p)
  ELSE /\ pubs' = <<>> /\ thrown' = "" /\ broker' = b
       /\ UNCHANGED <<pendingRequests, reqs>>
       /\ IF MethodTruthy(p) /\ p.method = "notifications/disconnected"
             /\ IsDisconnected(p) /\ Len(topic) >= 3 /\ serverId # ""
          THEN /\ connectedServers' = MapDelete(connectedServers, serverId)
               /\ discoveredServers' = MapDelete(discoveredServers, serverId)
               /\ dSeen' = dSeen \ {serverId}
               /\ events' = <<Event("serverDisconnected", serverId, "")>>
          ELSE /\ UNCHANGED <<connectedServers, discoveredServers, dSeen>>
               /\ events' = IF MethodTruthy(p)
                            THEN <<Event("serverNotification", "", p.method)>>
                            ELSE <<>>

\* handleRpcMessage of the client
handleRpcMessage(b, topic, p) ==
  LET serverId == Part(topic, 2) IN
  IF ~Parses(p)
  THEN /\ pubs' = <<>> /\ events' = <<>> /\ thrown' = "" /\ broker' = b
       /\ UNCHANGED <<pendingRequests, reqs, discoveredServers,
                      connectedServers, dSeen>>
  ELSE IF IdTruthy(p) /\ p.id \in pendingRequests
  THEN OnResponse(b, p)
  ELSE /\ pubs' = <<>> /\ thrown' = "" /\ broker' = b
       /\ UNCHANGED <<pendingRequests, reqs, discoveredServers>>
       /\ IF MethodTruthy(p) /\ p.method = "notifications/disconnected"
             /\ IsDisconnected(p)
          THEN IF Len(topic) >= 3 /\ serverId # ""
               THEN /\ connectedServers' = MapDelete(connectedServers, serverId)
                    /\ dSeen' = dSeen \ {serverId}
                    /\ events' = <<Event("serverDisconnected", serverId, "")>>
               ELSE /\ UNCHANGED <<connectedServers, dSeen>>
                    /\ events' = <<>>
          ELSE /\ UNCHANGED <<connectedServers, dSeen>>
               /\ events' = IF MethodTruthy(p)
                            THEN <<Event("serverNotification", "", p.method)>>
                            ELSE <<>>

\* The record of the servers that went offline while connected, after the
\* client has handled a message
GoneOfflineAfter(topic, p) ==
  LET serverId == Part(topic, 2) IN
  IF ~StartsWith(topic, <<"$mcp-server", "presence">>)
     \/ Len(topic) < 4 \/ serverId = ""
  THEN goneOffline
  ELSE IF TrimIsEmpty(p)
  THEN IF serverId \in DOMAIN connectedServers
       THEN goneOffline \cup {serverId} ELSE goneOffline
  ELSE IF IsServerOnline(p) THEN goneOffline \ {serverId}
  ELSE goneOffline

\* The client's 'message' listener on the next packet the broker has for it
ClientReceive ==
  /\ broker.inbox["client"] # <<>>
  /\ LET pkt == Head(broker.inbox["client"])
         rest == [broker EXCEPT !.inbox["client"] = Tail(@)]
     IN
     /\ goneOffline' = GoneOfflineAfter(pkt.topic, pkt.payload)
     /\ IF StartsWith(pkt.topic, <<"$mcp-server", "presence">>)
        THEN handleServerPresence(rest, pkt.topic, pkt.payload)
        ELSE IF StartsWith(pkt.topic, <<"$mcp-server", "capability">>)
        THEN handleServerCapabilityChange(rest, pkt.topic, pkt.payload)
        ELSE IF StartsWith(pkt.topic, <<"$mcp-rpc">>)
        THEN handleRpcMessage(rest, pkt.topic, pkt.payload)
        ELSE /\ pubs' = <<>> /\ events' = <<>> /\ thrown' = ""
             /\ broker' = rest
             /\ UNCHANGED <<pendingRequests, reqs, discoveredServers,
                            connectedServers, dSeen>>
  /\ UNCHANGED <<adapter, cPc, serverNameFilter, dPc, serverVars, utilVars>>

\* disconnect(): the loop over connectedServers, one awaited publish per turn,
\* then the awaited publish on the client's presence topic
DisconnectLoop(seen) ==
  LET todo == DOMAIN connectedServers \ seen
      note == Json(NoId, "notifications/disconnected", "", NoError)
  IN
  /\ events' = <<>>
  /\ thrown' = IF adapter["client"] THEN "" ELSE "MQTT client not connected"
  /\ IF todo # {}
     THEN \E sid \in todo :
            /\ Publish(Packet("client", RpcTopic(ClientId, sid, connectedServers[sid]),
                              note, FALSE, ClientProps))
            /\ dSeen' = seen \cup {sid}
            /\ dPc' = IF adapter["client"] THEN "loop" ELSE "threw"
     ELSE /\ Publish(Packet("client", ClientPresenceTopic(ClientId), note,
                            FALSE, ClientProps))
          /\ dSeen' = seen
          /\ dPc' = IF adapter["client"] THEN "presence" ELSE "threw"

\* disconnect() called while no other call of it is under way; the loop starts
\* at the first entry of connectedServers
DisconnectCall ==
  /\ cPc = "ready"
  /\ dPc \in {"idle", "done", "threw"}
  /\ DisconnectLoop({})
  /\ UNCHANGED <<adapter, cPc, serverNameFilter, discoveredServers,
                 connectedServers, pendingRequests, reqs, goneOffline,
                 serverVars, utilVars>>

DisconnectNext ==
  /\ dPc = "loop"
  /\ DisconnectLoop(dSeen)
  /\ UNCHANGED <<adapter, cPc, serverNameFilter, discoveredServers,
                 connectedServers, pendingRequests, reqs, goneOffline,
                 serverVars, utilVars>>

\* The MQTT client reports a publish of disconnect() as failed: the awaited
\* promise rejects and disconnect() throws out of the await.
DisconnectPublishFail ==
  /\ dPc \in {"loop", "presence"}
  /\ dPc' = "threw"
  /\ pubs' = <<>> /\ events' = <<>> /\ thrown' = "publish failed"
  /\ UNCHANGED <<brokerVars, cPc, serverNameFilter, discoveredServers,
                 connectedServers, pendingRequests, reqs, dSeen, goneOffline,
                 serverVars, utilVars>>

\* disconnect() after its presence publish: every pending request is rejected
\* with 'Client disconnected', the map cleared, the MQTT client ended
ClearPending ==
  /\ reqs' = [id \in 1..Len(reqs) |->
       IF id \in pendingRequests
       THEN [Settle(reqs[id], "cancelled", NoDetail)
               EXCEPT !.timer = IF @ = "armed" THEN "cleared" ELSE @,
                      !.elapsed = IF reqs[id].timer = "armed" THEN 0 ELSE @,
                      !.cont = IF @ = "await" THEN "threw" ELSE @]
       ELSE reqs[id]]
  /\ pendingRequests' = {}

\* The will the client registers at connect: the broker publishes it when the
\* connection ends without a DISCONNECT packet (mqtt.js end(true) destroys the
\* stream at once), and drops it when the DISCONNECT got through.
WillPacket ==
  Packet("client", ClientPresenceTopic(ClientId),
         Json(NoId, "notifications/disconnected", "", NoError), FALSE, <<>>)

DisconnectClear(will) ==
  /\ dPc = "presence"
  /\ ClearPending
  /\ adapter' = [adapter EXCEPT !["client"] = FALSE]
  /\ broker' = IF will
               THEN BrokerPublish(BrokerDisconnect(broker, "client"), WillPacket)
               ELSE BrokerDisconnect(broker, "client")
  /\ dPc' = "ending"
  /\ pubs' = <<>> /\ events' = <<>> /\ thrown' = ""
  /\ UNCHANGED <<cPc, serverNameFilter, discoveredServers,
                 connectedServers, dSeen,
                 goneOffline, serverVars, utilVars>>

DisconnectDone ==
  /\ dPc = "ending"
  /\ dPc' = "done"
  /\ pubs' = <<>> /\ events' = <<Event("disconnected", "", "")>> /\ thrown' = ""
  /\ UNCHANGED <<brokerVars, cPc, serverNameFilter, discoveredServers,
                 connectedServers, pendingRequests, reqs, dSeen,
                 goneOffline, serverVars, utilVars>>

\* An initializeServer that emits serverInitialized while it still awaits the
\* response
InitializeDoneEarly(id) ==
  /\ id \in 1..Len(reqs)
  /\ reqs[id].cont = "await"
  /\ reqs' = [reqs EXCEPT ![id].cont = "done"]
  /\ pubs' = <<>> /\ thrown' = ""
  /\ events' = <<Event("serverInitialized", reqs[id].sid, "")>>
  /\ UNCHANGED <<brokerVars, cPc, serverNameFilter, discoveredServers,
                 connectedServers, pendingRequests, dPc, dSeen,
                 goneOffline, serverVars, utilVars>>

\* initializeServer after its notifications/initialized publish
InitializeDone(id) ==
  /\ id \in 1..Len(reqs)
  /\ reqs[id].cont = "notified"
  /\ reqs' = [reqs EXCEPT ![id].cont = "done"]
  /\ pubs' = <<>> /\ thrown' = ""
  /\ events' = <<Event("serverInitialized", reqs[id].sid, "")>>
  /\ UNCHANGED <<brokerVars, cPc, serverNameFilter, discoveredServers,
                 connectedServers, pendingRequests, dPc, dSeen,
                 goneOffline, serverVars, utilVars>>

\* ================================================================ server
\* User properties that leave out the publisher's MQTT client id
ServerPropsTypeOnly == (CompType :> "mcp-server")

ServerProps == (CompType :> "mcp-server") @@ (CompId :> ServerId)

\* config.capabilities.tools.listChanged / resources.listChanged
ListChangedConfigs ==
  {[tools |-> TRUE, resources |-> FALSE], [tools |-> FALSE, resources |-> TRUE]}

ToolNames == {"add"}
ResourceUris == {"res"}

\* start(): the MQTT client is created and the CONNACK awaited
ServerStart ==
  /\ sPc \in {"idle", "ready", "failed"}
  /\ starts < MaxStart
  /\ starts' = starts + 1
  /\ sPc' = "connecting"
  /\ adapter' = [adapter EXCEPT !["server"] = TRUE]
  /\ pubs' = <<>> /\ events' = <<>> /\ thrown' = ""
  /\ UNCHANGED <<broker, clientVars, stopPc, listChanged, isInitialized,
                 connectedClients, tools, resources, handlers, presenceLog,
                 handlerRan, listed, utilVars>>

\* start(): adapter.connect() is rejected (an 'error' of the MQTT client or
\* the connect timeout); the catch block emits 'error' and rethrows
ServerConnectFail ==
  /\ sPc = "connecting"
  /\ sPc' = "failed"
  /\ pubs' = <<>> /\ events' = <<Event("error", "", "")>>
  /\ thrown' = "connect failed"
  /\ UNCHANGED <<brokerVars, clientVars, stopPc, starts, listChanged,
                 isInitialized, connectedClients, tools, resources, handlers,
                 presenceLog,
                 handlerRan, listed, utilVars>>

\* A subscription step of start() that goes on when the subscribe is rejected
ServerSubscribeStepLenient(filter, nl, next) ==
  /\ pubs' = <<>>
  /\ broker' = IF adapter["server"] THEN BrokerSubscribe(broker, "server", filter, nl)
               ELSE broker
  /\ sPc' = next /\ events' = <<>> /\ thrown' = ""

\* adapter.subscribe inside start(): rejected without an MQTT client
ServerSubscribeStep(filter, nl, next) ==
  /\ pubs' = <<>>
  /\ IF adapter["server"]
     THEN /\ broker' = BrokerSubscribe(broker, "server", filter, nl)
          /\ sPc' = next /\ events' = <<>> /\ thrown' = ""
     ELSE /\ broker' = broker
          /\ sPc' = "failed"
          /\ events' = <<Event("error", "", "")>>
          /\ thrown' = "MQTT client not connected"

ServerSubscribeControl ==
  /\ sPc = "connecting"
  /\ ServerSubscribeStep(ControlTopic(ServerId, ServerName), FALSE, "sub_rpc")
  /\ UNCHANGED <<adapter, clientVars, stopPc, starts, listChanged,
                 isInitialized, connectedClients, tools, resources, handlers,
                 presenceLog,
                 handlerRan, listed, utilVars>>

ServerSubscribeRpc ==
  /\ sPc = "sub_rpc"
  /\ ServerSubscribeStep(RpcPattern(ServerId, ServerName), TRUE, "online")
  /\ UNCHANGED <<adapter, clientVars, stopPc, starts, listChanged,
                 isInitialized, connectedClients, tools, resources, handlers,
                 presenceLog,
                 handlerRan, listed, utilVars>>

\* What a presence publish adds to the record of the server's presence publishes
Logged(pkt) ==
  IF adapter["server"]
  THEN Append(presenceLog, [online |-> ~TrimIsEmpty(pkt.payload), retain |-> pkt.retain])
  ELSE presenceLog

\* publishServerOnline without the retain flag
publishServerOnlineUnretained ==
  LET pkt == Packet("server", PresenceTopic(ServerId, ServerName),
                    OnlinePayload(ServerName), FALSE, ServerProps)
  IN
  /\ sPc = "online"
  /\ Publish(pkt)
  /\ presenceLog' = Logged(pkt)
  /\ sPc' = IF adapter["server"] THEN "announced" ELSE "failed"
  /\ events' = IF adapter["server"] THEN <<>> ELSE <<Event("error", "", "")>>
  /\ thrown' = IF adapter["server"] THEN "" ELSE "MQTT client not connected"
  /\ UNCHANGED <<adapter, clientVars, stopPc, starts, listChanged,
                 isInitialized, connectedClients, tools, resources, handlers,
                 handlerRan, listed, utilVars>>

publishServerOnline ==
  LET pkt == Packet("server", PresenceTopic(ServerId, ServerName),
                    OnlinePayload(ServerName), TRUE, ServerProps)
  IN
  /\ sPc = "online"
  /\ Publish(pkt)
  /\ presenceLog' = Logged(pkt)
  /\ sPc' = IF adapter["server"] THEN "announced" ELSE "failed"
  /\ events' = IF adapter["server"] THEN <<>> ELSE <<Event("error", "", "")>>
  /\ thrown' = IF adapter["server"] THEN "" ELSE "MQTT client not connected"
  /\ UNCHANGED <<adapter, clientVars, stopPc, starts, listChanged,
                 isInitialized, connectedClients, tools, resources, handlers,
                 handlerRan, listed, utilVars>>

ServerReady ==
  /\ sPc = "announced"
  /\ sPc' = "ready"
  /\ pubs' = <<>> /\ events' = <<Event("ready", "", "")>> /\ thrown' = ""
  /\ UNCHANGED <<brokerVars, clientVars, stopPc, starts, listChanged,
                 isInitialized, connectedClients, tools, resources, handlers,
                 presenceLog,
                 handlerRan, listed, utilVars>>

\* stop(): the awaited retained empty publish on the presence topic
ServerStop ==
  LET pkt == Packet("server", PresenceTopic(ServerId, ServerName),
                    Raw("empty"), TRUE, ServerProps)
  IN
  /\ stopPc = "idle"
  /\ starts > 0
  /\ Publish(pkt)
  /\ presenceLog' = Logged(pkt)
  /\ stopPc' = IF adapter["server"] THEN "clearing" ELSE "idle"
  /\ events' = <<>>
  /\ thrown' = IF adapter["server"] THEN "" ELSE "MQTT client not connected"
  /\ UNCHANGED <<adapter, clientVars, sPc, starts, listChanged,
                 isInitialized, connectedClients, tools, resources, handlers,
                 handlerRan, listed, utilVars>>

\* A stop() that takes the server back to the uninitialized state
ServerStopEndForgets ==
  /\ stopPc = "clearing"
  /\ stopPc' = "ending"
  /\ adapter' = [adapter EXCEPT !["server"] = FALSE]
  /\ broker' = BrokerDisconnect(broker, "server")
  /\ isInitialized' = FALSE
  /\ pubs' = <<>> /\ events' = <<>> /\ thrown' = ""
  /\ UNCHANGED <<clientVars, sPc, starts, listChanged,
                 connectedClients, tools, resources, handlers, presenceLog,
                 handlerRan, listed, utilVars>>

\* stop(): adapter.disconnect()
ServerStopEnd ==
  /\ stopPc = "clearing"
  /\ stopPc' = "ending"
  /\ adapter' = [adapter EXCEPT !["server"] = FALSE]
  /\ broker' = BrokerDisconnect(broker, "server")
  /\ pubs' = <<>> /\ events' = <<>> /\ thrown' = ""
  /\ UNCHANGED <<clientVars, sPc, starts, listChanged, isInitialized,
                 connectedClients, tools, resources, handlers, presenceLog,
                 handlerRan, listed, utilVars>>

ServerClosed ==
  /\ stopPc = "ending"
  /\ stopPc' = "idle"
  /\ pubs' = <<>> /\ events' = <<Event("closed", "", "")>> /\ thrown' = ""
  /\ UNCHANGED <<brokerVars, clientVars, sPc, starts, listChanged,
                 isInitialized, connectedClients, tools, resources, handlers,
                 presenceLog,
                 handlerRan, listed, utilVars>>

\* notifyCapabilityChange publishing on the control topic instead
notifyOnControlTopic(method) ==
  Publish(Packet("server", ControlTopic(ServerId, ServerName),
                 Json(NoId, method, "", NoError), FALSE, ServerProps))

\* notifyCapabilityChange(method); its promise is not awaited
notifyCapabilityChange(method) ==
  Publish(Packet("server", CapabilityTopic(ServerId, ServerName),
                 Json(NoId, method, "", NoError), FALSE, ServerProps))

\* tool(name, description, inputSchema, handler)
tool(name) ==
  /\ tools' = tools \cup {name}
  /\ listed' = [listed EXCEPT !.current = {}]
  /\ IF isInitialized /\ listChanged["tools"]
     THEN notifyCapabilityChange("notifications/tools/list_changed")
     ELSE pubs' = <<>> /\ broker' = broker
  /\ events' = <<>> /\ thrown' = ""
  /\ UNCHANGED <<adapter, clientVars, sPc, stopPc, starts, listChanged,
                 isInitialized, connectedClients, resources, handlers, presenceLog,
                 handlerRan, utilVars>>

\* resource(uri, name, handler, options)
resource(uri) ==
  /\ resources' = resources \cup {uri}
  /\ IF isInitialized /\ listChanged["resources"]
     THEN notifyCapabilityChange("notifications/resources/list_changed")
     ELSE pubs' = <<>> /\ broker' = broker
  /\ events' = <<>> /\ thrown' = ""
  /\ UNCHANGED <<adapter, clientVars, sPc, stopPc, starts, listChanged,
                 isInitialized, connectedClients, tools, handlers, presenceLog,
                 handlerRan, listed, utilVars>>

\* A client id that falls back to a fixed id when the user property is missing
PropClientIdOrDefault(pkt) ==
  IF CompId \in DOMAIN pkt.props THEN pkt.props[CompId] ELSE ClientId

\* userProperties['MCP-MQTT-CLIENT-ID'] of an inbound packet; "" is undefined
PropClientId(pkt) ==
  IF CompId \in DOMAIN pkt.props THEN pkt.props[CompId] ELSE ""

\* InitializeRequestSchema.parse(request) succeeds
IsInitializeRequest(p) ==
  /\ p.jsonrpc = "2.0"
  /\ p.id # NoId
  /\ p.method = "initialize"
  /\ p.params = <<"init">>

\* A handleControlMessage that registers the client before anything else
handleControlMessageAddsFirst(b, p, clientId) ==
  /\ events' = <<>> /\ thrown' = ""
  /\ UNCHANGED <<handlerRan, listed>>
  /\ IF Parses(p) /\ p.method = "initialize" /\ IdTruthy(p) /\ clientId # ""
        /\ IsInitializeRequest(p)
     THEN /\ isInitialized' = TRUE
          /\ connectedClients' = connectedClients \cup {clientId}
          /\ PublishOn(b, Packet("server", RpcTopic(clientId, ServerId, ServerName),
                                 Json(p.id, "", "init", NoError), FALSE, ServerProps))
          /\ handlers' = IF adapter["server"]
                         THEN handlers \cup {[kind |-> "initialize", cid |-> clientId,
                                              pc |-> "sub_capability"]}
                         ELSE handlers
     ELSE /\ pubs' = <<>> /\ broker' = b
          /\ UNCHANGED <<isInitialized, handlers, connectedClients>>

\* A handleControlMessage that answers an initialize request that fails
\* validation with an error response
handleControlMessageAnswersInvalid(b, p, clientId) ==
  /\ events' = <<>> /\ thrown' = ""
  /\ UNCHANGED <<connectedClients, handlerRan, listed>>
  /\ IF Parses(p) /\ p.method = "initialize" /\ IdTruthy(p) /\ clientId # ""
     THEN IF IsInitializeRequest(p)
          THEN /\ isInitialized' = TRUE
               /\ PublishOn(b, Packet("server",
                                      RpcTopic(clientId, ServerId, ServerName),
                                      Json(p.id, "", "init", NoError), FALSE,
                                      ServerProps))
               /\ handlers' = IF adapter["server"]
                              THEN handlers \cup {[kind |-> "initialize",
                                                   cid |-> clientId,
                                                   pc |-> "sub_capability"]}
                              ELSE handlers
          ELSE /\ PublishOn(b, Packet("server",
                                      RpcTopic(clientId, ServerId, ServerName),
                                      Json(p.id, "", "", -32602), FALSE,
                                      ServerProps))
               /\ UNCHANGED <<isInitialized, handlers>>
     ELSE /\ pubs' = <<>> /\ broker' = b
          /\ UNCHANGED <<isInitialized, handlers>>

\* handleControlMessage up to its first suspension: handleInitialize and the
\* publish of the response
handleControlMessage(b, p, clientId) ==
  /\ events' = <<>> /\ thrown' = ""
  /\ UNCHANGED <<connectedClients, handlerRan, listed>>
  /\ IF Parses(p) /\ p.method = "initialize" /\ IdTruthy(p) /\ clientId # ""
        /\ IsInitializeRequest(p)
     THEN /\ isInitialized' = TRUE
          /\ PublishOn(b, Packet("server", RpcTopic(clientId, ServerId, ServerName),
                                 Json(p.id, "", "init", NoError), FALSE, ServerProps))
          /\ handlers' = IF adapter["server"]
                         THEN handlers \cup {[kind |-> "initialize", cid |-> clientId,
                                              pc |-> "sub_capability"]}
                         ELSE handlers
     ELSE /\ pubs' = <<>> /\ broker' = b
          /\ UNCHANGED <<isInitialized, handlers>>

\* What a registered tool or resource handler may do when it is called: return
\* a result, throw an Error, throw an McpError of its own, throw a value that is
\* not an Error
HandlerOutcomes ==
  {[kind |-> "returns", code |-> NoError, msg |-> ""],
   [kind |-> "Error", code |-> NoError, msg |-> "boom"],
   [kind |-> "McpError", code |-> -32602, msg |-> "bad arguments"],
   [kind |-> "value", code |-> NoError, msg |-> ""]}

NoHandler == [kind |-> "none", code |-> NoError, msg |-> ""]

Answer(result, error, emsg) == [result |-> result, error |-> error, emsg |-> emsg]

\* handleToolCall / handleResourceRead after the handler, called with a
\* registered name, did h: the catch block lets an McpError through and wraps
\* everything else
AfterHandler(h, result, fallback) ==
  CASE h.kind = "returns" -> Answer(result, NoError, "")
    [] h.kind = "Error" -> Answer("", -32603, h.msg)
    [] h.kind = "McpError" -> Answer("", h.code, h.msg)
    [] OTHER -> Answer("", -32603, fallback)

\* A dispatcher that reports an unregistered tool or resource as an internal
\* error
RpcAnswerNotFoundAsInternal(p, h) ==
  CASE p.method = "tools/list" -> Answer("tools", NoError, "")
    [] p.method = "tools/call" ->
         IF p.params # <<>> /\ p.params[1] \in tools
         THEN AfterHandler(h, "content", "Tool execution failed")
         ELSE Answer("", -32603, "Tool not found")
    [] p.method = "resources/list" -> Answer("resources", NoError, "")
    [] p.method = "resources/read" ->
         IF p.params # <<>> /\ p.params[1] \in resources
         THEN AfterHandler(h, "contents", "Resource read failed")
         ELSE Answer("", -32603, "Resource not found")
    [] p.method = "ping" -> Answer("pong", NoError, "")
    [] OTHER -> Answer("", -32601, "Method not found")

\* The dispatcher's answer to a request, h being what the handler does if one
\* is called: [result, error code, error message]
RpcAnswer(p, h) ==
  CASE p.method = "tools/list" -> Answer("tools", NoError, "")
    [] p.method = "tools/call" ->
         IF p.params # <<>> /\ p.params[1] \in tools
         THEN AfterHandler(h, "content", "Tool execution failed")
         ELSE IF p.params # <<>>
         THEN Answer("", -32001, "Tool not found")
         ELSE Answer("", -32603, "invalid request")
    [] p.method = "resources/list" -> Answer("resources", NoError, "")
    [] p.method = "resources/read" ->
         IF p.params # <<>> /\ p.params[1] \in resources
         THEN AfterHandler(h, "contents", "Resource read failed")
         ELSE IF p.params # <<>>
         THEN Answer("", -32002, "Resource not found")
         ELSE Answer("", -32603, "invalid request")
    [] p.method = "ping" -> Answer("pong", NoError, "")
    [] OTHER -> Answer("", -32601, "Method not found")

\* The tools/list request id is answered
Listing(l, id) ==
  [current |-> l.current \cup {id},
   pairs |-> l.pairs \cup {<<i, id>> : i \in l.current}]

\* A registry that hands its tools out once between two registrations
handleToolsListOnce == IF listed.current = {} THEN tools ELSE {}

\* handleToolsList: the definitions of the registered tools
handleToolsList == tools

\* handleResourcesList
handleResourcesList == resources

\* result.tools / result.resources of the answer to a list request
ListResult(p) ==
  CASE p.method = "tools/list" -> handleToolsList
    [] p.method = "resources/list" -> handleResourcesList
    [] OTHER -> {}

\* The request gets as far as calling a registered handler
CallsHandler(p) ==
  /\ p.params # <<>>
  /\ \/ p.method = "tools/call" /\ p.params[1] \in tools
     \/ p.method = "resources/read" /\ p.params[1] \in resources

\* createResponse(request.id, result, error) as JSON
Response(id, a) == [Json(id, "", a.result, a.error) EXCEPT !.emsg = a.emsg]

\* A dispatcher that serves the clients in connectedClients only
handleRpcRequestOfConnected(b, p, clientId) ==
  /\ events' = <<>> /\ thrown' = ""
  /\ UNCHANGED <<isInitialized, connectedClients, handlers>>
  /\ IF Parses(p) /\ MethodTruthy(p) /\ IdTruthy(p)
        /\ clientId \in connectedClients
     THEN \E h \in (IF CallsHandler(p) THEN HandlerOutcomes ELSE {handlerRan}) :
            /\ handlerRan' = h
            /\ listed' = IF p.method = "tools/list" THEN Listing(listed, p.id)
                          ELSE listed
            /\ PublishOn(b, Packet("server", RpcTopic(clientId, ServerId, ServerName),
                                   [Response(p.id, RpcAnswer(p, h))
                                      EXCEPT !.list = ListResult(p)],
                                   FALSE, ServerProps))
     ELSE /\ pubs' = <<>> /\ broker' = b
          /\ UNCHANGED <<handlerRan, listed>>

\* handleRpcMessage of the server; a handler it awaits settles in the same turn
handleRpcRequest(b, p, clientId) ==
  /\ events' = <<>> /\ thrown' = ""
  /\ UNCHANGED <<isInitialized, connectedClients, handlers>>
  /\ IF Parses(p) /\ MethodTruthy(p) /\ IdTruthy(p)
     THEN \E h \in (IF CallsHandler(p) THEN HandlerOutcomes ELSE {handlerRan}) :
            /\ handlerRan' = h
            /\ listed' = IF p.method = "tools/list" THEN Listing(listed, p.id)
                          ELSE listed
            /\ PublishOn(b, Packet("server", RpcTopic(clientId, ServerId, ServerName),
                                   [Response(p.id, RpcAnswer(p, h))
                                      EXCEPT !.list = ListResult(p)],
                                   FALSE, ServerProps))
     ELSE /\ pubs' = <<>> /\ broker' = b
          /\ UNCHANGED <<handlerRan, listed>>

\* adapter.unsubscribe: rejected without an MQTT client
Unsubscribed(b, filter) ==
  IF adapter["server"] THEN BrokerUnsubscribe(b, "server", filter) ELSE b

\* A handleClientPresence that keeps the client when the payload is not a
\* disconnected notification
handleClientPresenceKeepsOnError(b, p, clientId) ==
  /\ pubs' = <<>> /\ events' = <<>> /\ thrown' = ""
  /\ UNCHANGED <<isInitialized, handlerRan, listed>>
  /\ IF ~TrimIsEmpty(p) /\ Parses(p) /\ IsDisconnected(p)
     THEN /\ connectedClients' = connectedClients \ {clientId}
          /\ broker' = Unsubscribed(b, ClientCapabilityTopic(clientId))
          /\ handlers' = IF adapter["server"]
                         THEN handlers \cup {[kind |-> "presence", cid |-> clientId,
                                              pc |-> "unsub_presence"]}
                         ELSE handlers
     ELSE /\ connectedClients' = IF TrimIsEmpty(p)
                                 THEN connectedClients \ {clientId}
                                 ELSE connectedClients
          /\ broker' = b
          /\ UNCHANGED handlers

\* handleClientPresence up to its first suspension
handleClientPresence(b, p, clientId) ==
  /\ pubs' = <<>> /\ events' = <<>> /\ thrown' = ""
  /\ UNCHANGED <<isInitialized, handlerRan, listed>>
  /\ connectedClients' = connectedClients \ {clientId}
  /\ IF ~TrimIsEmpty(p) /\ Parses(p) /\ IsDisconnected(p)
     THEN /\ broker' = Unsubscribed(b, ClientCapabilityTopic(clientId))
          /\ handlers' = IF adapter["server"]
                         THEN handlers \cup {[kind |-> "presence", cid |-> clientId,
                                              pc |-> "unsub_presence"]}
                         ELSE handlers
     ELSE /\ broker' = b
          /\ UNCHANGED handlers

\* The server's 'message' listener on the next packet the broker has for it
ServerReceive ==
  /\ broker.inbox["server"] # <<>>
  /\ LET pkt == Head(broker.inbox["server"])
         rest == [broker EXCEPT !.inbox["server"] = Tail(@)]
         isControl == pkt.topic = ControlTopic(ServerId, ServerName)
         clientId ==
           IF isControl THEN PropClientId(pkt)
           ELSE IF StartsWith(pkt.topic, <<"$mcp-rpc">>) THEN Part(pkt.topic, 1)
           ELSE IF StartsWith(pkt.topic, <<"$mcp-client">>) THEN Part(pkt.topic, 2)
           ELSE ""
     IN
     IF isControl
     THEN handleControlMessage(rest, pkt.payload, clientId)
     ELSE IF StartsWith(pkt.topic, <<"$mcp-rpc">>)
     THEN handleRpcRequest(rest, pkt.payload, clientId)
     ELSE IF StartsWith(pkt.topic, <<"$mcp-client", "presence">>)
     THEN handleClientPresence(rest, pkt.payload, clientId)
     ELSE /\ pubs' = <<>> /\ events' = <<>> /\ thrown' = "" /\ broker' = rest
          /\ UNCHANGED <<isInitialized, connectedClients, handlers, handlerRan,
                         listed>>
  /\ UNCHANGED <<adapter, clientVars, sPc, stopPc, starts, listChanged,
                 tools, resources, presenceLog, utilVars>>

\* A suspended handler runs from the transport operation it awaited to its
\* next one. A rejected operation ends handleControlMessage (handleMessage
\* catches) and sends handleClientPresence to its catch block.
ResumeInitialize(h) ==
  /\ h.kind = "initialize"
  /\ IF ~adapter["server"] /\ h.pc # "add"
     THEN /\ handlers' = handlers \ {h}
          /\ UNCHANGED <<broker, connectedClients>>
     ELSE CASE h.pc = "sub_capability" ->
                 /\ broker' = BrokerSubscribe(broker, "server",
                                              ClientCapabilityTopic(h.cid), FALSE)
                 /\ handlers' = (handlers \ {h}) \cup {[h EXCEPT !.pc = "sub_presence"]}
                 /\ UNCHANGED connectedClients
            [] h.pc = "sub_presence" ->
                 /\ broker' = BrokerSubscribe(broker, "server",
                                              ClientPresenceTopic(h.cid), FALSE)
                 /\ handlers' = (handlers \ {h}) \cup {[h EXCEPT !.pc = "add"]}
                 /\ UNCHANGED connectedClients
            [] h.pc = "add" ->
                 /\ connectedClients' = connectedClients \cup {h.cid}
                 /\ handlers' = handlers \ {h}
                 /\ UNCHANGED broker

ResumePresence(h) ==
  /\ h.kind = "presence"
  /\ h.pc = "unsub_presence"
  /\ broker' = Unsubscribed(broker, ClientPresenceTopic(h.cid))
  /\ handlers' = handlers \ {h}
  /\ connectedClients' = IF adapter["server"] THEN connectedClients
                         ELSE connectedClients \ {h.cid}

ServerResume ==
  /\ \E h \in handlers : ResumeInitialize(h) \/ ResumePresence(h)
  /\ pubs' = <<>> /\ events' = <<>> /\ thrown' = ""
  /\ UNCHANGED <<adapter, clientVars, sPc, stopPc, starts, listChanged,
                 isInitialized, tools, resources, presenceLog,
                 handlerRan, listed, utilVars>>

\* handleRpcMessage on a request whose tool or resource handler waits for I/O:
\* the listener returns at the await in handleToolCall / handleResourceRead
\* and the request stays with the suspended call
ServerReceiveCall ==
  /\ broker.inbox["server"] # <<>>
  /\ LET pkt == Head(broker.inbox["server"])
         p == pkt.payload
     IN
     /\ StartsWith(pkt.topic, <<"$mcp-rpc">>)
     /\ Parses(p) /\ MethodTruthy(p) /\ IdTruthy(p)
     /\ CallsHandler(p)
     /\ handlers' = handlers \cup {[kind |-> "call", cid |-> Part(pkt.topic, 1),
                                    pc |-> "handler", id |-> p.id,
                                    method |-> p.method]}
     /\ broker' = [broker EXCEPT !.inbox["server"] = Tail(@)]
  /\ pubs' = <<>> /\ events' = <<>> /\ thrown' = ""
  /\ UNCHANGED <<adapter, clientVars, sPc, stopPc, starts, listChanged,
                 isInitialized, connectedClients, tools, resources, presenceLog,
                 handlerRan, listed, utilVars>>

\* The calls whose handler has not settled yet
SuspendedCalls == {h \in handlers : h.kind = "call"}

\* What handleToolCall / handleResourceRead and handleRpcMessage make of the
\* outcome o of the handler of the suspended call h
CallAnswer(h, o) ==
  IF h.method = "tools/call"
  THEN AfterHandler(o, "content", "Tool execution failed")
  ELSE AfterHandler(o, "contents", "Resource read failed")

\* A server that answers its suspended calls in the order of their ids
ResumeCallOldestFirst(h, o) ==
  LET oldest == CHOOSE g \in SuspendedCalls :
                  \A f \in SuspendedCalls : g.id <= f.id
  IN
  /\ h.kind = "call"
  /\ handlers' = handlers \ {h}
  /\ handlerRan' = o
  /\ PublishOn(broker, Packet("server", RpcTopic(h.cid, ServerId, ServerName),
                              Response(oldest.id, CallAnswer(h, o)),
                              FALSE, ServerProps))

\* The handler of the suspended call h settles with outcome o: handleRpcMessage
\* goes on from its await to the publish of the response
ResumeCall(h, o) ==
  /\ h.kind = "call"
  /\ handlers' = handlers \ {h}
  /\ handlerRan' = o
  /\ PublishOn(broker, Packet("server", RpcTopic(h.cid, ServerId, ServerName),
                              Response(h.id, CallAnswer(h, o)),
                              FALSE, ServerProps))

ServerResumeCall ==
  /\ \E h \in handlers, o \in HandlerOutcomes : ResumeCall(h, o)
  /\ events' = <<>> /\ thrown' = ""
  /\ UNCHANGED <<adapter, clientVars, sPc, stopPc, starts, listChanged,
                 isInitialized, connectedClients, tools, resources, presenceLog,
                 listed, utilVars>>

\* The MQTT client reports that the publish of an initialize response failed:
\* the await in handleControlMessage throws, handleMessage catches and logs
ControlPublishFail ==
  /\ \E h \in handlers :
       /\ h.kind = "initialize" /\ h.pc = "sub_capability"
       /\ handlers' = handlers \ {h}
  /\ pubs' = <<>> /\ events' = <<>> /\ thrown' = ""
  /\ UNCHANGED <<brokerVars, clientVars, sPc, stopPc, starts, listChanged,
                 isInitialized, connectedClients, tools, resources, presenceLog,
                 handlerRan, listed, utilVars>>

\* ------------------------------------------------- other publishers
\* What another session may publish on the topics the client listens to
EnvToClient ==
  {Packet("env", PresenceTopic(sid, ServerName), pl, TRUE, <<>>) :
     sid \in ServerIds, pl \in {OnlinePayload(ServerName), Raw("empty"), Raw("garbage")}}
  \cup
  {Packet("env", RpcTopic(ClientId, ServerId, ServerName), pl, FALSE, <<>>) :
     pl \in {Json(id, "", "init", NoError) : id \in 1..MaxReq}
            \cup {Json(id, "", "", -32601) : id \in 1..MaxReq}
            \cup {Json(id, "", "", NoError) : id \in 1..MaxReq}
            \cup {[Json(id, "", "init", NoError) EXCEPT !.jsonrpc = "1.0"] :
                    id \in 1..MaxReq}
            \cup {Json(NoId, "notifications/disconnected", "", NoError)}}

EnvPublishToClient ==
  /\ broker.inbox["client"] = <<>>
  /\ \E pkt \in EnvToClient :
       /\ Receives(broker, "client", pkt)
       /\ broker' = BrokerPublish(broker, pkt)
  /\ pubs' = <<>> /\ events' = <<>> /\ thrown' = ""
  /\ UNCHANGED <<adapter, clientVars, serverVars, utilVars>>

\* The servers and the server names the topics of inbound packets may carry
TopicServerIds == {"S1", "S2"}
TopicNames == {ServerName, OtherName}

\* What server sessions may publish on the client's RPC topics: responses,
\* disconnected notifications with and without an id and with another jsonrpc
\* version, another notification, a request
RpcInPayloads ==
  {Json(id, "", "init", NoError) : id \in 1..MaxReq}
  \cup {Json(id, "", "", -32601) : id \in 1..MaxReq}
  \cup {Json(id, "notifications/disconnected", "", NoError) : id \in {NoId, 1}}
  \cup {[Json(NoId, "notifications/disconnected", "", NoError)
           EXCEPT !.jsonrpc = "1.0"],
        Json(NoId, "notifications/tools/list_changed", "", NoError),
        Json(1, "ping", "", NoError),
        Json(0, "ping", "", NoError)}

EnvRpcToClient ==
  {Packet("env", RpcTopic(ClientId, sid, name), pl, FALSE, <<>>) :
     sid \in TopicServerIds, name \in TopicNames, pl \in RpcInPayloads}

EnvPublishRpcToClient ==
  /\ broker.inbox["client"] = <<>>
  /\ \E pkt \in EnvRpcToClient :
       /\ Receives(broker, "client", pkt)
       /\ broker' = BrokerPublish(broker, pkt)
  /\ pubs' = <<>> /\ events' = <<>> /\ thrown' = ""
  /\ UNCHANGED <<adapter, clientVars, serverVars, utilVars>>

\* A session publishing on the RPC topics the client has with servers it
\* sends no request to
EnvPublishForeignRpcToClient ==
  /\ broker.inbox["client"] = <<>>
  /\ \E pkt \in EnvRpcToClient :
       /\ Part(pkt.topic, 2) \notin ServerIds
       /\ Receives(broker, "client", pkt)
       /\ broker' = BrokerPublish(broker, pkt)
  /\ pubs' = <<>> /\ events' = <<>> /\ thrown' = ""
  /\ UNCHANGED <<adapter, clientVars, serverVars, utilVars>>

\* What a client session may publish on the topics the server listens to
EnvToServer ==
  {Packet("env", ControlTopic(ServerId, ServerName), pl, FALSE, props) :
     pl \in {[Json(1, "initialize", "", NoError) EXCEPT !.params = <<"init">>],
             Json(1, "initialize", "", NoError)},
     props \in {ClientProps, <<>>}}
  \cup
  {Packet("env", ClientPresenceTopic(ClientId), pl, FALSE, ClientProps) :
     pl \in {Raw("empty"), Raw("garbage"),
             Json(NoId, "notifications/disconnected", "", NoError)}}
  \cup
  {Packet("env", RpcTopic(ClientId, ServerId, ServerName), pl, FALSE, ClientProps) :
     pl \in {Json(1, "ping", "", NoError),
             Json(NoId, "notifications/disconnected", "", NoError)}}

EnvPublishToServer ==
  /\ broker.inbox["server"] = <<>>
  /\ Cardinality(handlers) < MaxHandlers
  /\ \E pkt \in EnvToServer :
       /\ Receives(broker, "server", pkt)
       /\ broker' = BrokerPublish(broker, pkt)
  /\ pubs' = <<>> /\ events' = <<>> /\ thrown' = ""
  /\ UNCHANGED <<adapter, clientVars, serverVars, utilVars>>

\* The requests and notifications a client session may publish on the RPC
\* topic, with the ids 1 and 0
RpcCalls ==
  {[method |-> "ping", params |-> <<>>],
   [method |-> "tools/call", params |-> <<"add">>],
   [method |-> "tools/call", params |-> <<"nope">>],
   [method |-> "resources/read", params |-> <<"res">>],
   [method |-> "resources/read", params |-> <<"nope">>],
   [method |-> "initialize", params |-> <<"init">>],
   [method |-> "prompts/list", params |-> <<>>]}

EnvRpcToServer ==
  {Packet("env", RpcTopic(ClientId, ServerId, ServerName),
          [Json(id, c.method, "", NoError) EXCEPT !.params = c.params],
          FALSE, ClientProps) : id \in {0, 1}, c \in RpcCalls}
  \cup
  {Packet("env", RpcTopic(ClientId, ServerId, ServerName),
          Json(NoId, "notifications/initialized", "", NoError), FALSE, ClientProps)}

EnvPublishRpcToServer ==
  /\ broker.inbox["server"] = <<>>
  /\ \E pkt \in EnvRpcToServer :
       /\ Receives(broker, "server", pkt)
       /\ broker' = BrokerPublish(broker, pkt)
  /\ pubs' = <<>> /\ events' = <<>> /\ thrown' = ""
  /\ UNCHANGED <<adapter, clientVars, serverVars, utilVars>>

\* The initialize requests client sessions may publish on the control topic,
\* with and without the MCP-MQTT-CLIENT-ID user property, and their graceful
\* disconnections
ClientIds == {"C1", "C2"}

PropsOf(cid) == (CompType :> "mcp-client") @@ (CompId :> cid)

EnvControlToServer ==
  {Packet("env", ControlTopic(ServerId, ServerName),
          [Json(1, "initialize", "", NoError) EXCEPT !.params = <<"init">>],
          FALSE, props) :
     props \in {PropsOf(c) : c \in ClientIds} \cup {<<>>, (CompType :> "mcp-client")}}
  \cup
  {Packet("env", ClientPresenceTopic(c),
          Json(NoId, "notifications/disconnected", "", NoError), FALSE, PropsOf(c)) :
     c \in ClientIds}

EnvPublishControlToServer ==
  /\ broker.inbox["server"] = <<>>
  /\ Cardinality(handlers) < MaxHandlers
  /\ \E pkt \in EnvControlToServer :
       /\ Receives(broker, "server", pkt)
       /\ broker' = BrokerPublish(broker, pkt)
  /\ pubs' = <<>> /\ events' = <<>> /\ thrown' = ""
  /\ UNCHANGED <<adapter, clientVars, serverVars, utilVars>>

\* What may arrive on the presence topic of a client: the empty payload the
\* broker sends for a will, a blank string, text that is not JSON, the
\* disconnected notification, another notification and a request
PresencePayloads ==
  {Raw("empty"), Raw("blank"), Raw("garbage"),
   Json(NoId, "notifications/disconnected", "", NoError),
   Json(NoId, "notifications/initialized", "", NoError),
   Json(1, "ping", "", NoError)}

EnvPresenceToServer ==
  EnvControlToServer
  \cup
  {Packet("env", ClientPresenceTopic(c), pl, FALSE, PropsOf(c)) :
     c \in ClientIds, pl \in PresencePayloads}

EnvPublishPresenceToServer ==
  /\ broker.inbox["server"] = <<>>
  /\ Cardinality(handlers) < MaxHandlers
  /\ \E pkt \in EnvPresenceToServer :
       /\ Receives(broker, "server", pkt)
       /\ broker' = BrokerPublish(broker, pkt)
  /\ pubs' = <<>> /\ events' = <<>> /\ thrown' = ""
  /\ UNCHANGED <<adapter, clientVars, serverVars, utilVars>>

\* The requests the sessions of two clients may publish on the RPC topic, each
\* client numbering its own, with their initialize requests and disconnections
EnvCallsToServer ==
  {Packet("env", RpcTopic(c, ServerId, ServerName),
          [Json(id, m.method, "", NoError) EXCEPT !.params = m.params],
          FALSE, PropsOf(c)) :
     c \in ClientIds, id \in {1, 2},
     m \in {[method |-> "tools/call", params |-> <<"add">>],
            [method |-> "ping", params |-> <<>>]}}
  \cup {pkt \in EnvControlToServer : CompId \in DOMAIN pkt.props}

\* A client does not reuse the id of a request it is waiting for
EnvPublishCallsToServer ==
  /\ broker.inbox["server"] = <<>>
  /\ Cardinality(handlers) < MaxHandlers
  /\ \E pkt \in EnvCallsToServer :
       /\ Receives(broker, "server", pkt)
       /\ \A h \in SuspendedCalls :
            ~(h.cid = Part(pkt.topic, 1) /\ h.id = pkt.payload.id)
       /\ broker' = BrokerPublish(broker, pkt)
  /\ pubs' = <<>> /\ events' = <<>> /\ thrown' = ""
  /\ UNCHANGED <<adapter, clientVars, serverVars, utilVars>>

\* ============================================ constructors and utilities
NoCall == [fn |-> "none"]
NoRet == [error |-> "not run"]

\* The wildcard characters in a segment of a name: what includes('+') and
\* includes('#') find in it
SegmentChars(seg) ==
  CASE seg = "+" -> {"+"}
    [] seg = "#" -> {"#"}
    [] seg = "a+b" -> {"+"}
    [] seg = "c#" -> {"#"}
    [] OTHER -> {}

Includes(name, ch) == \E i \in 1..Len(name) : ch \in SegmentChars(name[i])

\* The configurations a server is constructed with; "" and <<>> stand for a
\* field that is undefined or the empty string
ServerConfigs ==
  [serverId : {"", "S1", "S2"},
   serverName : {<<>>, <<"demo", "calc">>, <<"demo">>, <<"+">>, <<"demo", "#">>,
                 <<"a+b">>, <<"demo", "c#">>},
   host : {"", "broker"}, name : {"", "srv"}, version : {"", "1.0"}]

\* new McpMqttServer(config) throws; no UniversalMqttAdapter has been created
ConstructorThrows(msg) ==
  [error |-> msg, mqttAdapter |-> FALSE,
   topics |-> [control |-> <<>>, capability |-> <<>>, presence |-> <<>>,
               rpcPattern |-> <<>>]]

\* The object new McpMqttServer(config) returns
Constructed(config) ==
  [error |-> "", mqttAdapter |-> TRUE,
   topics |-> [control |-> ControlTopic(config.serverId, config.serverName),
               capability |-> CapabilityTopic(config.serverId, config.serverName),
               presence |-> PresenceTopic(config.serverId, config.serverName),
               rpcPattern |-> RpcPattern(config.serverId, config.serverName)]]

\* A constructor that takes any server name
McpMqttServerAnyName(config) ==
  IF config.serverId = "" \/ config.serverName = <<>>
  THEN ConstructorThrows("serverId and serverName are required")
  ELSE IF config.name = "" \/ config.version = ""
  THEN ConstructorThrows("name and version are required")
  ELSE IF config.host = ""
  THEN ConstructorThrows("host is required")
  ELSE Constructed(config)

McpMqttServer(config) ==
  IF config.serverId = "" \/ config.serverName = <<>>
  THEN ConstructorThrows("serverId and serverName are required")
  ELSE IF config.name = "" \/ config.version = ""
  THEN ConstructorThrows("name and version are required")
  ELSE IF config.host = ""
  THEN ConstructorThrows("host is required")
  ELSE IF Includes(config.serverName, "+") \/ Includes(config.serverName, "#")
  THEN ConstructorThrows("Server name must not contain + or # characters")
  ELSE Constructed(config)

ConstructorCalls == {[fn |-> "McpMqttServer", config |-> c] : c \in ServerConfigs}

\* new McpMqttServer(config)
NewServer ==
  /\ call.fn = "McpMqttServer" /\ ret = NoRet
  /\ ret' = McpMqttServer(call.config)
  /\ UNCHANGED <<call, brokerVars, outVars, clientVars, serverVars>>

\* The methods a request is made with: the table's, and three it does not list
Methods ==
  DOMAIN timeouts \cup {"notifications/initialized", "resources/unsubscribe", "x"}

TimeoutCalls == {[fn |-> "getRequestTimeout", method |-> m] : m \in Methods}

\* getRequestTimeout(method), as sendRequest calls it to arm the timer
RequestTimeout ==
  /\ call.fn = "getRequestTimeout" /\ ret = NoRet
  /\ ret' = [error |-> "", value |-> getRequestTimeout(call.method)]
  /\ UNCHANGED <<call, brokerVars, outVars, clientVars, serverVars>>

\* ------------------------------------------------ src/src/shared/utils.ts
\* A JavaScript value is written as a string; these are undefined and the
\* other values that count as false
Undefined == "undefined"
Falsy == {Undefined, "null", "0", "false", ""}

\* An object is the sequence of its <<key, value>> pairs.
\* obj[key]: undefined for a key the object does not have
Lookup(obj, key) ==
  IF \E i \in 1..Len(obj) : obj[i][1] = key
  THEN obj[CHOOSE i \in 1..Len(obj) : obj[i][1] = key][2]
  ELSE Undefined

Keys(obj) == {obj[i][1] : i \in 1..Len(obj)}

\* A createRequest that always writes the params member
createRequestWithParams(id, method, params) ==
  [jsonrpc |-> "2.0", id |-> id, method |-> method,
   hasParams |-> TRUE, params |-> params.obj]

\* createRequest(method, params), id being what generateId() returned;
\* params.given is false for a call without the second argument
createRequest(id, method, params) ==
  [jsonrpc |-> "2.0", id |-> id, method |-> method,
   hasParams |-> params.given,
   params |-> IF params.given THEN params.obj ELSE <<>>]

\* JSON.stringify of an object: a key whose value is undefined is left out
RECURSIVE StringifyObject(_)
StringifyObject(obj) ==
  IF obj = <<>> THEN <<>>
  ELSE (IF Head(obj)[2] = Undefined THEN <<>> ELSE Head(obj))
       \o StringifyObject(Tail(obj))

\* JSON.stringify(request): the text as the sequence of its keys and values
Stringify(env) ==
  <<"jsonrpc", env.jsonrpc, "id", env.id, "method", env.method>>
  \o (IF env.hasParams
      THEN <<"params", "{">> \o StringifyObject(env.params) \o <<"}">>
      ELSE <<>>)

RECURSIVE ParseObject(_)
ParseObject(text) ==
  IF text = <<>> \/ Head(text) = "}" THEN <<>>
  ELSE << <<text[1], text[2]>> >> \o ParseObject(SubSeq(text, 3, Len(text)))

RECURSIVE ParseMembers(_, _)
ParseMembers(text, env) ==
  IF text = <<>> THEN env
  ELSE IF Head(text) = "params"
  THEN [env EXCEPT !.hasParams = TRUE,
                   !.params = ParseObject(SubSeq(text, 3, Len(text)))]
  ELSE ParseMembers(SubSeq(text, 3, Len(text)), [env EXCEPT ![text[1]] = text[2]])

\* JSON.parse(text)
Parse(text) ==
  ParseMembers(text, [jsonrpc |-> Undefined, id |-> Undefined, method |-> Undefined,
                      hasParams |-> FALSE, params |-> <<>>])

\* The params of the requests the client makes, and some more
ParamsArgs ==
  {[given |-> FALSE, obj |-> <<>>],
   [given |-> TRUE, obj |-> <<>>],
   [given |-> TRUE, obj |-> << <<"key", "value">> >>],
   [given |-> TRUE, obj |-> << <<"uri", "res">> >>],
   [given |-> TRUE, obj |-> << <<"id", "7">>, <<"method", "m">> >>],
   [given |-> TRUE, obj |-> << <<"name", "add">>, <<"arguments", Undefined>> >>],
   [given |-> TRUE, obj |-> << <<"name", "add">>, <<"arguments", "{}">> >>]}

CreateRequestCalls ==
  {[fn |-> "createRequest", id |-> id, method |-> m, params |-> ps] :
     id \in {"mock-id-123", "V1StGXR8"},
     m \in {"test_method", "tools/call", "tools/list"}, ps \in ParamsArgs}

\* createRequest(method, params), then JSON.stringify and JSON.parse as the
\* two ends of the transport do
CreateRequest ==
  /\ call.fn = "createRequest" /\ ret = NoRet
  /\ LET request == createRequest(call.id, call.method, call.params) IN
     ret' = [error |-> "", envelope |-> request, decoded |-> Parse(Stringify(request))]
  /\ UNCHANGED <<call, brokerVars, outVars, clientVars, serverVars>>

\* A createResponse that tests the result the way it tests the error
createResponseTruthy(id, result, error) ==
  [jsonrpc |-> "2.0", id |-> id,
   hasResult |-> result \notin Falsy, result |-> result,
   hasError |-> error \notin Falsy, error |-> error]

\* createResponse(id, result, error): result !== undefined, error && ...
createResponse(id, result, error) ==
  [jsonrpc |-> "2.0", id |-> id,
   hasResult |-> result # Undefined, result |-> result,
   hasError |-> error \notin Falsy, error |-> error]

CreateResponseCalls ==
  {[fn |-> "createResponse", id |-> id, result |-> r, error |-> e] :
     id \in {"test-id", "0"},
     r \in {Undefined, "null", "0", "false", "", "{data:'success'}"},
     e \in {Undefined, "{code:-32602,message:'Invalid parameters'}"}}

CreateResponse ==
  /\ call.fn = "createResponse" /\ ret = NoRet
  /\ ret' = [error |-> "",
             envelope |-> createResponse(call.id, call.result, call.error)]
  /\ UNCHANGED <<call, brokerVars, outVars, clientVars, serverVars>>

\* The registries of tools and resources: a Map kept as the sequence of its
\* entries <<key, value>> in insertion order
MaxRegs == 3

\* An array that takes every registration as a new element
ArrayPush(m, k, v) == Append(m, <<k, v>>)

\* Map.prototype.set: the value of an existing key is replaced where it is, a
\* new key goes to the end
MapSetEntry(m, k, v) ==
  IF \E i \in 1..Len(m) : m[i][1] = k
  THEN [i \in 1..Len(m) |-> IF m[i][1] = k THEN <<k, v>> ELSE m[i]]
  ELSE Append(m, <<k, v>>)

\* Map.prototype.has and Map.prototype.get
MapHas(m, k) == \E i \in 1..Len(m) : m[i][1] = k

MapGet(m, k) == m[CHOOSE i \in 1..Len(m) : m[i][1] = k][2]

\* The calls of tool(name, description, inputSchema, handler) and of
\* resource(uri, name, handler, options): version tells two descriptions and
\* two handlers given for the same name or uri apart
Registrations ==
  [kind : {"tool"}, key : {"add", "sub"}, version : {1, 2}]
  \cup [kind : {"resource"}, key : {"res", "doc"}, version : {1, 2}]

\* this.tools / this.resources after the calls regs, made in that order
RECURSIVE Registry(_, _)
Registry(regs, kind) ==
  IF regs = <<>> THEN <<>>
  ELSE LET earlier == Registry(SubSeq(regs, 1, Len(regs) - 1), kind)
           r == regs[Len(regs)]
       IN
       IF r.kind = kind
       THEN MapSetEntry(earlier, r.key,
                        [definition |-> [key |-> r.key, description |-> r.version],
                         handler |-> r.version])
       ELSE earlier

\* handleToolsList / handleResourcesList: the definitions of the values of the
\* Map, in its order
ListDefinitions(m) == [i \in 1..Len(m) |-> m[i][2].definition]

RegisterCalls ==
  {[fn |-> "register", regs |-> s] :
     s \in UNION {[1..n -> Registrations] : n \in 1..MaxRegs}}

\* The registrations of the call, then tools/list and resources/list; after
\* every registration the keys registered so far and the handler each would
\* run
Register ==
  /\ call.fn = "register" /\ ret = NoRet
  /\ LET after(n, kind) == Registry(SubSeq(call.regs, 1, n), kind)
         n == Len(call.regs)
     IN
     ret' = [error |-> "",
             tools |-> ListDefinitions(after(n, "tool")),
             resources |-> ListDefinitions(after(n, "resource")),
             toolHandler |-> [k \in {"add", "sub"} |->
                                IF MapHas(after(n, "tool"), k)
                                THEN MapGet(after(n, "tool"), k).handler
                                ELSE 0],
             resourceHandler |-> [k \in {"res", "doc"} |->
                                    IF MapHas(after(n, "resource"), k)
                                    THEN MapGet(after(n, "resource"), k).handler
                                    ELSE 0],
             keys |-> [i \in 1..n |->
                         {after(i, "tool")[j][1] :
                            j \in 1..Len(after(i, "tool"))}
                         \cup {after(i, "resource")[j][1] :
                                 j \in 1..Len(after(i, "resource"))}]]
  /\ UNCHANGED <<call, brokerVars, outVars, clientVars, serverVars>>

\* ----------------------------------------------------------- initial state
InitPeers ==
  /\ broker = [subs |-> [p \in Peers |-> {}], retained |-> {},
               inbox |-> [p \in Peers |-> <<>>]]
  /\ adapter = [p \in Peers |-> FALSE]
  /\ pubs = <<>> /\ events = <<>> /\ thrown = ""
  /\ cPc = "idle" /\ serverNameFilter = <<"#">>
  /\ discoveredServers = <<>> /\ connectedServers = <<>>
  /\ pendingRequests = {} /\ reqs = <<>>
  /\ dPc = "idle" /\ dSeen = {} /\ goneOffline = {}
  /\ sPc = "idle" /\ stopPc = "idle" /\ starts = 0
  /\ listChanged \in ListChangedConfigs
  /\ isInitialized = FALSE
  /\ connectedClients = {} /\ tools = {} /\ resources = {}
  /\ handlers = {} /\ presenceLog = <<>>
  /\ handlerRan = NoHandler /\ listed = [current |-> {}, pairs |-> {}]

Init == InitPeers /\ call = NoCall /\ ret = NoRet

ClientNext ==
  \/ ClientConnect
  \/ \E k \in SessionConnacks : ClientConnected(k)
  \/ ClientSubscribeCapability
  \/ ClientSubscribeRpc
  \/ ClientConnectDone
  \/ ClientReceive
  \/ \E sid \in ServerIds : initializeServer(sid)
  \/ \E m \in RpcMethods, sid \in ServerIds : sendRpcRequest(m, sid)
  \/ \E id \in 1..MaxReq : TimerFire(id)
  \/ Tick
  \/ \E id \in 1..MaxReq : PublishFail(id)
  \/ \E id \in 1..MaxReq : InitializeDone(id)
  \/ DisconnectCall
  \/ DisconnectNext
  \/ DisconnectPublishFail
  \/ \E will \in BOOLEAN : DisconnectClear(will)
  \/ DisconnectDone

ServerNext ==
  \/ ServerStart
  \/ ServerSubscribeControl
  \/ ServerSubscribeRpc
  \/ publishServerOnline
  \/ ServerReady
  \/ ServerStop
  \/ ServerStopEnd
  \/ ServerClosed
  \/ \E n \in ToolNames : tool(n)
  \/ \E u \in ResourceUris : resource(u)
  \/ ServerReceive
  \/ ServerResume

\* The client alone, with other sessions publishing on the topics it listens to
InitClient == Init /\ listChanged = [tools |-> TRUE, resources |-> FALSE]

SpecClient == InitClient /\ [][ClientNext \/ EnvPublishToClient]_vars

\* The server alone, with client sessions publishing on the topics it listens to
SpecServer == Init /\ [][ServerNext \/ EnvPublishToServer]_vars

\* One server and one client talking through the broker, the server started
\* once and left running: no stop(), no registration, no timer and no
\* transport failure.
SessionCalls ==
  \/ starts = 0 /\ ServerStart
  \/ ClientConnect
  \/ \E sid \in ServerIds : initializeServer(sid)
  \/ \E m \in RpcMethods, sid \in ServerIds : sendRpcRequest(m, sid)
  \/ DisconnectCall

\* What the event loop runs by itself: the continuation of an awaited
\* transport operation, and the 'message' listener on a delivered packet.
SessionSteps ==
  \/ ServerSubscribeControl
  \/ ServerSubscribeRpc
  \/ publishServerOnline
  \/ ServerReady
  \/ ServerReceive
  \/ ServerResume
  \/ \E k \in SessionConnacks : ClientConnected(k)
  \/ ClientSubscribeCapability
  \/ ClientSubscribeRpc
  \/ ClientConnectDone
  \/ ClientReceive
  \/ \E id \in 1..MaxReq : InitializeDone(id)
  \/ DisconnectNext
  \/ \E will \in BOOLEAN : DisconnectClear(will)
  \/ DisconnectDone

\* The event loop never leaves a runnable continuation or a delivered packet
\* waiting for ever; nothing obliges the application to make a call.
SpecSession ==
  InitClient /\ [][SessionCalls \/ SessionSteps]_vars /\ WF_vars(SessionSteps)

\* One server and one client behind a broker that suggests no filter, the
\* client listing the tools while tools are registered and disconnecting
\* once; the server is started once and a registration waits until the client
\* has taken what was sent to it
ListingNext ==
  \/ starts = 0 /\ ServerStart
  \/ ServerSubscribeControl
  \/ ServerSubscribeRpc
  \/ publishServerOnline
  \/ ServerReady
  \/ ServerReceive
  \/ ServerResume
  \/ broker.inbox["client"] = <<>> /\ \E n \in ToolNames : tool(n)
  \/ ClientConnect
  \/ ClientConnected([filters |-> NoProp, rbac |-> NoProp])
  \/ ClientSubscribeCapability
  \/ ClientSubscribeRpc
  \/ ClientConnectDone
  \/ ClientReceive
  \/ \E sid \in ServerIds : initializeServer(sid)
  \/ \E id \in 1..MaxReq : InitializeDone(id)
  \/ \E sid \in ServerIds : listTools(sid)
  \/ dPc = "idle" /\ DisconnectCall
  \/ DisconnectNext
  \/ \E will \in BOOLEAN : DisconnectClear(will)
  \/ DisconnectDone

SpecListing == InitClient /\ [][ListingNext]_vars

\* The client alone, with the event loop running every due timer and time
\* passing while a timer is pending
SpecClientFair ==
  SpecClient /\ WF_vars(Tick) /\ WF_vars(\E id \in 1..MaxReq : TimerFire(id))

\* The dispatcher of a server that is started once and left running, with
\* tools and resources registered at any time and client sessions sending
\* requests on the RPC topic
DispatchNext ==
  \/ starts = 0 /\ ServerStart
  \/ ServerSubscribeControl
  \/ ServerSubscribeRpc
  \/ publishServerOnline
  \/ ServerReady
  \/ \E n \in ToolNames : tool(n)
  \/ \E u \in ResourceUris : resource(u)
  \/ ServerReceive
  \/ EnvPublishRpcToServer

SpecDispatch == Init /\ [][DispatchNext]_vars

\* A server that is started once and left running, with the sessions of two
\* clients sending initialize requests and disconnecting
ControlNext ==
  \/ starts = 0 /\ ServerStart
  \/ ServerSubscribeControl
  \/ ServerSubscribeRpc
  \/ publishServerOnline
  \/ ServerReady
  \/ ServerReceive
  \/ ServerResume
  \/ EnvPublishControlToServer

SpecControl == Init /\ [][ControlNext]_vars

\* The servers other sessions announce, under three names
EnvAnnounces ==
  {Packet("env", PresenceTopic(sid, name), OnlinePayload(name), TRUE, <<>>) :
     sid \in ServerIds, name \in {ServerName, OtherName, <<"1">>}}

EnvAnnounce ==
  /\ broker.inbox["client"] = <<>>
  /\ \E pkt \in EnvAnnounces :
       /\ pkt \notin broker.retained
       /\ broker' = BrokerPublish(broker, pkt)
  /\ pubs' = <<>> /\ events' = <<>> /\ thrown' = ""
  /\ UNCHANGED <<adapter, clientVars, serverVars, utilVars>>

\* A client that connects, after any CONNACK, and stays connected while other
\* sessions announce servers
ConnectNext ==
  \/ ClientConnect
  \/ \E k \in Connacks : ClientConnected(k)
  \/ ClientSubscribeCapability
  \/ ClientSubscribeRpc
  \/ ClientConnectDone
  \/ ClientReceive
  \/ EnvAnnounce

SpecConnect == InitClient /\ [][ConnectNext]_vars

\* The life cycle of the server object alone: start() and stop() in any
\* order, with a connect that may fail
StartNext ==
  \/ ServerStart
  \/ ServerConnectFail
  \/ ServerSubscribeControl
  \/ ServerSubscribeRpc
  \/ publishServerOnline
  \/ ServerReady
  \/ ServerStop
  \/ ServerStopEnd
  \/ ServerClosed

SpecStart == Init /\ [][StartNext]_vars

\* The server of SpecControl with a transport that may fail to publish the
\* initialize response
SpecInitialize == Init /\ [][ControlNext \/ ControlPublishFail]_vars

\* The server of SpecControl with any payload arriving on the presence topics
\* of its clients
PresenceNext ==
  \/ starts = 0 /\ ServerStart
  \/ ServerSubscribeControl
  \/ ServerSubscribeRpc
  \/ publishServerOnline
  \/ ServerReady
  \/ ServerReceive
  \/ ServerResume
  \/ EnvPublishPresenceToServer

SpecPresence == Init /\ [][PresenceNext]_vars

\* A client that connects and stays connected, makes requests and receives
\* what server sessions publish on its RPC topics; no timer fires
RpcInNext ==
  \/ ClientConnect
  \/ \E k \in SessionConnacks : ClientConnected(k)
  \/ ClientSubscribeCapability
  \/ ClientSubscribeRpc
  \/ ClientConnectDone
  \/ ClientReceive
  \/ \E sid \in ServerIds : initializeServer(sid)
  \/ \E m \in RpcMethods, sid \in ServerIds : sendRpcRequest(m, sid)
  \/ \E id \in 1..MaxReq : InitializeDone(id)
  \/ EnvPublishToClient
  \/ EnvPublishRpcToClient

SpecRpcIn == InitClient /\ [][RpcInNext]_vars

\* A server that is started once and left running, with a tool whose handler
\* settles at once or waits, and the sessions of two clients
AsyncNext ==
  \/ starts = 0 /\ ServerStart
  \/ ServerSubscribeControl
  \/ ServerSubscribeRpc
  \/ publishServerOnline
  \/ ServerReady
  \/ \E n \in ToolNames : tool(n)
  \/ ServerReceive
  \/ ServerReceiveCall
  \/ ServerResume
  \/ ServerResumeCall
  \/ EnvPublishCallsToServer

SpecAsync == Init /\ [][AsyncNext]_vars

\* A client that connects, discovers servers and makes requests, while
\* nothing but the session of a server it sends no request to publishes on
\* its RPC topics
ForeignNext ==
  \/ ClientConnect
  \/ \E k \in SessionConnacks : ClientConnected(k)
  \/ ClientSubscribeCapability
  \/ ClientSubscribeRpc
  \/ ClientConnectDone
  \/ ClientReceive
  \/ \E sid \in ServerIds : initializeServer(sid)
  \/ \E m \in RpcMethods, sid \in ServerIds : sendRpcRequest(m, sid)
  \/ \E id \in 1..MaxReq : InitializeDone(id)
  \/ EnvAnnounce
  \/ EnvPublishForeignRpcToClient

SpecForeign == InitClient /\ [][ForeignNext]_vars

\* One server, started once and left running, and one client that was
\* constructed without a name, stays connected and initializes the server;
\* time passes while a timer is pending and the event loop runs every due timer
NamelessNext ==
  \/ starts = 0 /\ ServerStart
  \/ ServerSubscribeControl
  \/ ServerSubscribeRpc
  \/ publishServerOnline
  \/ ServerReady
  \/ ServerReceive
  \/ ClientConnect
  \/ \E k \in SessionConnacks : ClientConnected(k)
  \/ ClientSubscribeCapability
  \/ ClientSubscribeRpc
  \/ ClientConnectDone
  \/ ClientReceive
  \/ \E sid \in ServerIds : initializeServerNameless(sid)
  \/ \E id \in 1..MaxReq : TimerFire(id)
  \/ Tick

SpecNameless ==
  /\ InitClient /\ [][NamelessNext]_vars
  /\ WF_vars(Tick) /\ WF_vars(\E id \in 1..MaxReq : TimerFire(id))

\* One server with a tool registered before start(), started once and left
\* running, whose handler settles at once or waits, and one client that stays
\* connected and makes requests while time passes, timers fire and publishes
\* are reported as failed
LateNext ==
  \/ starts = 0 /\ tools = {} /\ \E n \in ToolNames : tool(n)
  \/ starts = 0 /\ tools # {} /\ ServerStart
  \/ ServerSubscribeControl
  \/ ServerSubscribeRpc
  \/ publishServerOnline
  \/ ServerReady
  \/ ServerReceive
  \/ ServerReceiveCall
  \/ ServerResume
  \/ ServerResumeCall
  \/ ClientConnect
  \/ ClientConnected([filters |-> NoProp, rbac |-> NoProp])
  \/ ClientSubscribeCapability
  \/ ClientSubscribeRpc
  \/ ClientConnectDone
  \/ ClientReceive
  \/ \E sid \in ServerIds : initializeServer(sid)
  \/ \E id \in 1..MaxReq : InitializeDone(id)
  \/ \E m \in RpcMethods, sid \in ServerIds : sendRpcRequest(m, sid)
  \/ \E id \in 1..MaxReq : TimerFire(id)
  \/ Tick
  \/ \E id \in 1..MaxReq : PublishFail(id)

SpecLate == InitClient /\ [][LateNext]_vars

\* Each peer on its own, against the traffic of other sessions: a run is a run
\* of the client object or a run of the server object.
ServerUntouched == sPc = "idle" /\ starts = 0 /\ tools = {} /\ resources = {}
ClientUntouched == cPc = "idle"

ClientAlone == ServerUntouched /\ (ClientNext \/ EnvPublishToClient)
ServerAlone == ClientUntouched /\ (ServerNext \/ EnvPublishToServer)

SpecPeers == Init /\ [][ClientAlone \/ ServerAlone]_vars

\* The constructors and the functions of src/src/shared/utils.ts, each applied
\* once to arguments drawn from the sets above
UtilCalls ==
  ConstructorCalls \cup TimeoutCalls \cup CreateRequestCalls \cup CreateResponseCalls
  \cup RegisterCalls

InitUtil ==
  /\ InitPeers /\ listChanged = [tools |-> TRUE, resources |-> FALSE]
  /\ call \in UtilCalls /\ ret = NoRet

UtilNext ==
  \/ NewServer
  \/ RequestTimeout
  \/ CreateRequest
  \/ CreateResponse
  \/ Register

SpecUtil == InitUtil /\ [][UtilNext]_vars

\* ================================================================ claims
Outcomes == {"success", "mcp_error", "timeout", "cancelled", "publish_failed"}

\* C1: every request made through sendRequest gets an outcome, one of success,
\* McpError, timeout, 'Client disconnected' and publish failure; the outcome it
\* got never changes afterwards; and the request id is a key of the pending
\* registry exactly as long as the request has no outcome.
C1_ExactlyOneOutcome ==
  /\ [](\A id \in 1..Len(reqs) :
          /\ reqs[id].outcome \in Outcomes \cup {"none"}
          /\ (id \in pendingRequests) <=> (reqs[id].outcome = "none"))
  /\ [][\A id \in 1..Len(reqs) :
          reqs[id].outcome # "none" =>
            /\ reqs'[id].outcome = reqs[id].outcome
            /\ reqs'[id].detail = reqs[id].detail]_vars
  /\ \A id \in 1..MaxReq :
       (Len(reqs) >= id) ~> (Len(reqs) >= id /\ reqs[id].outcome \in Outcomes)

\* A request whose publish failure was reported after its response had arrived
C1_Witness ==
  \E id \in 1..Len(reqs) : reqs[id].outcome = "success" /\ reqs[id].pub = "failed"

\* C2: every server id that is a key of connectedServers is a key of
\* discoveredServers.
C2_ConnectedAreDiscovered ==
  DOMAIN connectedServers \subseteq DOMAIN discoveredServers

\* C3: in a server that was started once and never stopped, with no handler
\* suspended and no packet waiting, the client id is in connectedClients if and
\* only if the server holds the subscriptions to both per-client topics, and
\* outside the set it holds neither.
C3_ConnectedIffSubscribed ==
  LET holds(filter) == \E sub \in broker.subs["server"] : sub.filter = filter
      capability == holds(ClientCapabilityTopic(ClientId))
      presence == holds(ClientPresenceTopic(ClientId))
  IN
  (/\ starts = 1 /\ stopPc = "idle" /\ adapter["server"]
   /\ handlers = {} /\ broker.inbox["server"] = <<>>) =>
     IF ClientId \in connectedClients
     THEN capability /\ presence
     ELSE ~capability /\ ~presence

Notified(out, method) ==
  /\ Len(out) = 1
  /\ out[1].topic = CapabilityTopic(ServerId, ServerName)
  /\ out[1].payload.method = method

\* C5 as stated: a call of tool() (resource()) publishes one list_changed
\* notification on the capability topic if and only if the server is initialized
\* and the listChanged capability of that kind is true.
C5_NotifiesIffInitializedAndDeclared ==
  [][/\ \A n \in ToolNames :
          tool(n) => (Notified(pubs', "notifications/tools/list_changed")
                        <=> (isInitialized /\ listChanged["tools"]))
     /\ \A u \in ResourceUris :
          resource(u) => (Notified(pubs', "notifications/resources/list_changed")
                            <=> (isInitialized /\ listChanged["resources"]))]_vars

\* C5 amended: a call of tool() (resource()) publishes one list_changed
\* notification on the capability topic if and only if the server is
\* initialized, the listChanged capability of that kind is true and the adapter
\* holds an MQTT client; no list_changed notification is published while the
\* server is not initialized or the capability is false.
C5_NotifiesIffInitializedDeclaredAndOpen ==
  /\ [][/\ \A n \in ToolNames :
             tool(n) => (Notified(pubs', "notifications/tools/list_changed")
                           <=> (isInitialized /\ listChanged["tools"]
                                /\ adapter["server"]))
        /\ \A u \in ResourceUris :
             resource(u) => (Notified(pubs', "notifications/resources/list_changed")
                               <=> (isInitialized /\ listChanged["resources"]
                                    /\ adapter["server"]))]_vars
  /\ [](\A i \in 1..Len(pubs) :
          /\ pubs[i].payload.method = "notifications/tools/list_changed"
               => isInitialized /\ listChanged["tools"]
          /\ pubs[i].payload.method = "notifications/resources/list_changed"
               => isInitialized /\ listChanged["resources"])

\* A list_changed notification leaving the server
C5_Witness ==
  \/ Notified(pubs, "notifications/tools/list_changed")
  \/ Notified(pubs, "notifications/resources/list_changed")

\* The client holds a successful initialize response
InitializeSucceeded ==
  \E id \in 1..Len(reqs) :
    reqs[id].method = "initialize" /\ reqs[id].outcome = "success"

\* C6: once a client that received the initialize response, and called
\* disconnect() with the server in connectedServers, has gone through
\* disconnect(), the server eventually has the client id out of
\* connectedClients and holds neither per-client subscription.
C6_DisconnectCleansUp ==
  (InitializeSucceeded /\ ServerId \in dSeen /\ dPc = "done")
    ~> (/\ ClientId \notin connectedClients
        /\ \A sub \in broker.subs["server"] :
             sub.filter \notin {ClientCapabilityTopic(ClientId),
                                ClientPresenceTopic(ClientId)})

EmptyPresenceOfConnected(sid) ==
  /\ broker.inbox["client"] # <<>>
  /\ LET pkt == Head(broker.inbox["client"]) IN
       /\ StartsWith(pkt.topic, <<"$mcp-server", "presence">>)
       /\ Len(pkt.topic) >= 4
       /\ Part(pkt.topic, 2) = sid
       /\ TrimIsEmpty(pkt.payload)
  /\ sid \in DOMAIN connectedServers

\* C9: the handler of an empty presence message for a server in
\* connectedServers leaves the server id in neither table and emits exactly one
\* serverDisconnected for it; and from then on, as long as no online presence
\* message of that server has come, the server is not in connectedServers and
\* an RPC call to it throws and publishes nothing.
C9_EmptyPresenceDisconnects ==
  /\ [](\A sid \in goneOffline : sid \notin DOMAIN connectedServers)
  /\ [][/\ \A sid \in ServerIds :
             (EmptyPresenceOfConnected(sid) /\ ClientReceive) =>
                /\ sid \notin DOMAIN discoveredServers'
                /\ sid \notin DOMAIN connectedServers'
                /\ events' = <<Event("serverDisconnected", sid, "")>>
        /\ \A sid \in ServerIds, m \in RpcMethods :
             (sid \in goneOffline /\ sendRpcRequest(m, sid)) =>
                /\ thrown' = "Server not connected"
                /\ pubs' = <<>>
                /\ broker' = broker
                /\ reqs' = reqs]_vars

\* C10: a request that timed out was rejected with an error naming its method
\* and its timeout, no earlier than that timeout after it was registered, and
\* is no longer a key of the pending registry; the step of the timer publishes
\* nothing.
C10_TimeoutIsLocal ==
  /\ [](\A id \in 1..Len(reqs) :
          reqs[id].outcome = "timeout" =>
            /\ reqs[id].detail.method = reqs[id].method
            /\ reqs[id].detail.ms = getRequestTimeout(reqs[id].method)
            /\ reqs[id].elapsed >= getRequestTimeout(reqs[id].method)
            /\ id \notin pendingRequests)
  /\ [][\A id \in 1..MaxReq :
          TimerFire(id) =>
            /\ reqs'[id].outcome = "timeout"
            /\ id \notin pendingRequests'
            /\ pubs' = <<>>
            /\ broker' = broker]_vars

\* A tools/call request rejected by its 60 second timer
C10_Witness ==
  \E id \in 1..Len(reqs) :
    /\ reqs[id].method = "tools/call"
    /\ reqs[id].outcome = "timeout"
    /\ reqs[id].elapsed >= 60000

\* C11: the step in which a call of disconnect() finishes, by returning or by
\* throwing, leaves the pending registry empty and no request without an
\* outcome; and the requests that are pending when disconnect() clears the
\* registry are rejected with 'Client disconnected'.
C11_DisconnectCancelsPending ==
  [][/\ (\E will \in BOOLEAN : DisconnectClear(will)) =>
          \A id \in pendingRequests : reqs'[id].outcome = "cancelled"
     /\ (/\ DisconnectCall \/ DisconnectNext \/ DisconnectPublishFail
             \/ DisconnectDone
         /\ dPc' \in {"done", "threw"}) =>
          /\ pendingRequests' = {}
          /\ \A id \in 1..Len(reqs') : reqs'[id].outcome # "none"]_vars

\* C12: a call of disconnect() made after an earlier call has returned throws
\* nothing, publishes nothing and leaves both server tables and the pending
\* registry as they were.
C12_SecondDisconnectIsNoOp ==
  [][(dPc = "done" /\ DisconnectCall) =>
       /\ thrown' = ""
       /\ pubs' = <<>>
       /\ broker' = broker
       /\ UNCHANGED <<discoveredServers, connectedServers, pendingRequests, reqs>>]_vars

\* C13: an RPC call (listTools, callTool, listResources, readResource, ping)
\* naming a server that is not a key of connectedServers throws 'Server not
\* connected' in the same step, hands no packet to the MQTT client, and creates
\* no request: no registry entry and no timer.
C13_NotConnectedFailsAtOnce ==
  [][\A m \in RpcMethods, sid \in ServerIds :
       (sid \notin DOMAIN connectedServers /\ sendRpcRequest(m, sid)) =>
          /\ thrown' = "Server not connected"
          /\ pubs' = <<>>
          /\ broker' = broker
          /\ reqs' = reqs
          /\ pendingRequests' = pendingRequests]_vars

\* An RPC call to a server that is discovered but not initialized has thrown
C13_Witness ==
  /\ thrown = "Server not connected"
  /\ ServerId \in DOMAIN discoveredServers
  /\ ServerId \notin DOMAIN connectedServers

\* C14: initializeServer naming a server that is not a key of discoveredServers
\* throws 'Server not discovered', hands no packet to the MQTT client, creates no
\* request and leaves discoveredServers and connectedServers as they were.
C14_NotDiscoveredFails ==
  [][\A sid \in ServerIds :
       (sid \notin DOMAIN discoveredServers /\ initializeServer(sid)) =>
          /\ thrown' = "Server not discovered"
          /\ pubs' = <<>>
          /\ broker' = broker
          /\ reqs' = reqs
          /\ pendingRequests' = pendingRequests
          /\ UNCHANGED <<discoveredServers, connectedServers>>]_vars

\* initializeServer has thrown for a server whose presence was cleared after
\* it had been discovered
C14_Witness ==
  /\ thrown = "Server not discovered"
  /\ ServerId \notin DOMAIN discoveredServers
  /\ \E r \in broker.retained : TRUE

\* The step settles initialize request id, sent for server sid, with a success
\* response
InitializeSucceedsNow(id, sid) ==
  /\ id \in 1..Len(reqs)
  /\ reqs[id].method = "initialize"
  /\ reqs[id].sid = sid
  /\ reqs[id].outcome = "none"
  /\ reqs'[id].outcome = "success"

\* C15: a server enters connectedServers, and notifications/initialized is
\* handed to the MQTT client (alone, on the RPC topic of client, server and
\* server name), only in the step that settles an initialize request for that
\* server with a success response; serverInitialized is emitted only by the
\* continuation that runs after that publish; and an initialize request that
\* ended in an error response, a timeout, a cancellation or a publish failure
\* never gets as far as the notification or the event.
C15_InitializedOnlyAfterSuccess ==
  /\ [][/\ \A sid \in ServerIds :
             (sid \notin DOMAIN connectedServers /\ sid \in DOMAIN connectedServers')
               => \E id \in 1..MaxReq : InitializeSucceedsNow(id, sid)
        /\ (\E i \in 1..Len(pubs') :
               pubs'[i].payload.method = "notifications/initialized")
               => \E id \in 1..MaxReq, sid \in ServerIds :
                    /\ InitializeSucceedsNow(id, sid)
                    /\ sid \in DOMAIN connectedServers'
                    /\ pubs' = <<Packet("client",
                                        RpcTopic(ClientId, sid, reqs[id].name),
                                        Json(NoId, "notifications/initialized", "", NoError),
                                        FALSE, ClientProps)>>
        /\ (\E i \in 1..Len(events') : events'[i].name = "serverInitialized")
               => \E id \in 1..Len(reqs) :
                    /\ reqs[id].cont = "notified"
                    /\ reqs'[id].cont = "done"
                    /\ events' = <<Event("serverInitialized", reqs[id].sid, "")>>]_vars
  /\ [](\A id \in 1..Len(reqs) :
          /\ (reqs[id].method = "initialize"
               /\ reqs[id].outcome \in {"mcp_error", "timeout", "cancelled",
                                         "publish_failed"})
                => reqs[id].cont = "threw"
          /\ reqs[id].cont \in {"notified", "done"} => reqs[id].outcome = "success")

\* serverInitialized emitted while a second initialize request has ended in an
\* error response
C15_Witness ==
  /\ events = <<Event("serverInitialized", ServerId, "")>>
  /\ ServerId \in DOMAIN connectedServers
  /\ \E id \in 1..Len(reqs) :
       reqs[id].method = "initialize" /\ reqs[id].outcome = "mcp_error"

\* The packet the server's listener handles next
ServerHandlesNext(pkt) ==
  /\ broker.inbox["server"] # <<>>
  /\ Head(broker.inbox["server"]) = pkt

\* The methods the dispatcher's switch has a case for
DispatchedMethods ==
  {"tools/list", "tools/call", "resources/list", "resources/read", "ping"}

\* The step publishes one packet: a response on this topic with this id
OneResponse(out, topic, id) ==
  /\ Len(out) = 1
  /\ out[1].topic = topic
  /\ out[1].payload.id = id
  /\ out[1].payload.method = ""

\* C16: of the requests that reach the dispatcher's switch, a tools/call whose
\* name is not a registered tool is answered with error code -32001, a
\* resources/read whose uri is not a registered resource with -32002, and a
\* request whose method the switch has no case for (initialize among them) with
\* -32601; the answer is one response on the request's topic, with the
\* request's id and no result.
C16_DispatcherErrorCodes ==
  [][\A pkt \in EnvRpcToServer :
       LET p == pkt.payload
           code == CASE p.method = "tools/call" /\ p.params[1] \notin tools -> -32001
                     [] p.method = "resources/read" /\ p.params[1] \notin resources
                          -> -32002
                     [] p.method \notin DispatchedMethods -> -32601
                     [] OTHER -> NoError
       IN
       (/\ ServerHandlesNext(pkt) /\ ServerReceive
        /\ MethodTruthy(p) /\ IdTruthy(p)
        /\ code # NoError) =>
          /\ OneResponse(pubs', pkt.topic, p.id)
          /\ pubs'[1].payload.error = code
          /\ pubs'[1].payload.result = ""]_vars

\* A call of a tool that is not registered, while another tool is, answered
\* with -32001
C16_Witness ==
  /\ Len(pubs) = 1
  /\ pubs[1].payload.error = -32001
  /\ pubs[1].payload.id = 1
  /\ tools # {}

\* C17: when the tool or resource handler the dispatcher calls throws, whatever
\* it throws, the request is answered with one response carrying its id, error
\* code -32603 and, if the thrown value has a message, that message; and the
\* server keeps its MQTT client and its subscriptions.
C17_HandlerErrorsAreInternal ==
  [][\A pkt \in EnvRpcToServer :
       LET p == pkt.payload IN
       (/\ ServerHandlesNext(pkt) /\ ServerReceive
        /\ MethodTruthy(p) /\ IdTruthy(p)
        /\ CallsHandler(p)
        /\ handlerRan'.kind # "returns") =>
          /\ OneResponse(pubs', pkt.topic, p.id)
          /\ pubs'[1].payload.error = -32603
          /\ handlerRan'.kind \in {"Error", "McpError"}
               => pubs'[1].payload.emsg = handlerRan'.msg
          /\ adapter' = adapter
          /\ broker'.subs = broker.subs]_vars

\* C18: a message on the RPC topic with a method and an id, whatever the id,
\* is answered with exactly one response on the same topic carrying the same
\* id; a message without an id is not answered.
C18_OneResponsePerRequest ==
  [][\A pkt \in EnvRpcToServer :
       LET p == pkt.payload IN
       (ServerHandlesNext(pkt) /\ ServerReceive /\ MethodTruthy(p)) =>
          IF p.id # NoId
          THEN OneResponse(pubs', pkt.topic, p.id)
          ELSE pubs' = <<>>]_vars

\* C19: the handler of a message on the control topic that lacks the
\* MCP-MQTT-CLIENT-ID user property publishes nothing, makes no subscription
\* and leaves connectedClients and isInitialized as they were; with the
\* property, the initialize response goes to the RPC topic of the property's
\* value, and the per-client subscriptions and the connectedClients entry the
\* handler makes later are those of that value.
C19_ClientIdFromUserProperty ==
  [][/\ \A pkt \in EnvControlToServer :
          (/\ ServerHandlesNext(pkt) /\ ServerReceive
           /\ pkt.topic = ControlTopic(ServerId, ServerName)) =>
             IF CompId \notin DOMAIN pkt.props
             THEN /\ pubs' = <<>>
                  /\ broker'.subs = broker.subs
                  /\ broker'.retained = broker.retained
                  /\ UNCHANGED <<connectedClients, isInitialized, handlers>>
             ELSE /\ OneResponse(pubs', RpcTopic(pkt.props[CompId], ServerId, ServerName),
                                 pkt.payload.id)
                  /\ connectedClients' = connectedClients
                  /\ \A h \in handlers' \ handlers :
                       h.kind = "initialize" /\ h.cid = pkt.props[CompId]
     /\ ServerResume =>
          /\ \A sub \in broker'.subs["server"] \ broker.subs["server"] :
               \E h \in handlers \ handlers' :
                 /\ h.kind = "initialize"
                 /\ sub.filter \in {ClientCapabilityTopic(h.cid),
                                     ClientPresenceTopic(h.cid)}
          /\ \A c \in connectedClients' \ connectedClients :
               \E h \in handlers \ handlers' :
                 h.kind = "initialize" /\ h.pc = "add" /\ h.cid = c]_vars

\* The second client is connected with both of its subscriptions, the first
\* is not
C19_Witness ==
  /\ connectedClients = {"C2"}
  /\ \A t \in {ClientCapabilityTopic("C2"), ClientPresenceTopic("C2")} :
       \E sub \in broker.subs["server"] : sub.filter = t
  /\ \A sub \in broker.subs["server"] :
       sub.filter \notin {ClientCapabilityTopic("C1"), ClientPresenceTopic("C1")}

\* The packet the client's listener handles next
ClientHandlesNext(pkt) ==
  /\ broker.inbox["client"] # <<>>
  /\ Head(broker.inbox["client"]) = pkt

\* A response envelope that is not valid: its jsonrpc field is not "2.0", or it
\* has neither a result nor an error
InvalidEnvelope(p) ==
  /\ Parses(p)
  /\ p.method = ""
  /\ p.jsonrpc # "2.0" \/ (p.result = "" /\ p.error = NoError)

\* C20: when the client handles an invalid response envelope on an RPC topic,
\* the pending request its id names, if there is one, is rejected with McpError
\* code -32000 and leaves the registry; if there is none, nothing is settled
\* and nothing is emitted.
C20_InvalidEnvelopeRejects ==
  [][\A pkt \in EnvToClient :
       LET p == pkt.payload IN
       (/\ ClientHandlesNext(pkt) /\ ClientReceive
        /\ StartsWith(pkt.topic, <<"$mcp-rpc">>)
        /\ InvalidEnvelope(p)) =>
          IF p.id \in pendingRequests
          THEN /\ reqs'[p.id].outcome = "mcp_error"
               /\ reqs'[p.id].detail.code = -32000
               /\ p.id \notin pendingRequests'
          ELSE /\ reqs' = reqs
               /\ pendingRequests' = pendingRequests
               /\ events' = <<>>]_vars

\* C21: constructing a server fails, with no transport object created, when
\* serverId, serverName or host is missing or when serverName contains + or #;
\* for every configuration that is accepted the four topics are
\* $mcp-server/{id}/{name}, $mcp-server/capability/{id}/{name},
\* $mcp-server/presence/{id}/{name} and $mcp-rpc/+/{id}/{name}.
C21_ConstructorValidates ==
  (call.fn = "McpMqttServer" /\ ret # NoRet) =>
    LET c == call.config IN
    /\ (\/ c.serverId = "" \/ c.serverName = <<>> \/ c.host = ""
        \/ \E i \in 1..Len(c.serverName) : c.serverName[i] \in {"+", "#", "a+b", "c#"})
         => (ret.error # "" /\ ~ret.mqttAdapter)
    /\ ret.error = "" =>
         /\ ret.topics.control = <<"$mcp-server", c.serverId>> \o c.serverName
         /\ ret.topics.capability =
              <<"$mcp-server", "capability", c.serverId>> \o c.serverName
         /\ ret.topics.presence =
              <<"$mcp-server", "presence", c.serverId>> \o c.serverName
         /\ ret.topics.rpcPattern = <<"$mcp-rpc", "+", c.serverId>> \o c.serverName

\* A server constructed with a two-level name
C21_Witness ==
  /\ call.fn = "McpMqttServer"
  /\ ret.error = "" /\ call.config.serverName = <<"demo", "calc">>
  /\ ret.topics.rpcPattern = <<"$mcp-rpc", "+", "S2", "demo", "calc">>

\* What the specification makes of MCP-SERVER-NAME-FILTERS: the first element
\* of a non-empty JSON array of strings
SuggestsFilter(connack) ==
  LET f == connack.filters IN
  f.present /\ f.parses /\ f.array /\ f.strings /\ Len(f.items) > 0

\* C22: when CONNACK carries an MCP-SERVER-NAME-FILTERS property that parses
\* as a non-empty JSON array of strings the presence, capability and RPC
\* subscriptions of connect() use its first element as the filter, and in
\* every other case they use the default filter #.
C22_FilterFromConnack ==
  /\ [][\A k \in Connacks :
          ClientConnected(k) =>
            LET filter == IF SuggestsFilter(k) THEN k.filters.items[1] ELSE <<"#">>
            IN /\ serverNameFilter' = filter
               /\ [filter |-> PresenceFilter(filter), nl |-> FALSE]
                    \in broker'.subs["client"]]_vars
  /\ [](cPc = "ready" =>
          broker.subs["client"] =
            {[filter |-> PresenceFilter(serverNameFilter), nl |-> FALSE],
             [filter |-> CapabilityFilter(serverNameFilter), nl |-> FALSE],
             [filter |-> ClientRpcFilter(ClientId, serverNameFilter), nl |-> TRUE]})

\* A property that is there and is not what the protocol sends: no JSON, or
\* for the filters no array of strings
MalformedFilters(f) == f.present /\ ~(f.parses /\ f.array /\ f.strings)
MalformedRbac(r) == r.present /\ ~r.parses

RbacEvents(out) == {i \in 1..Len(out) : out[i].name = "brokerRbacInfo"}

\* C23: a malformed MCP-SERVER-NAME-FILTERS or MCP-RBAC property never makes
\* connect() fail: connect() goes on to its subscriptions as after any other
\* CONNACK, malformed filters leave the filter at its default # and a
\* malformed MCP-RBAC gives no brokerRbacInfo event.
C23_MalformedIsIgnored ==
  [][\A k \in Connacks :
       (ClientConnected(k) /\ (MalformedFilters(k.filters) \/ MalformedRbac(k.rbac)))
         => /\ thrown' = "" /\ cPc' = "sub_capability"
            /\ [filter |-> PresenceFilter(serverNameFilter'), nl |-> FALSE]
                 \in broker'.subs["client"]
            /\ MalformedFilters(k.filters) => serverNameFilter' = <<"#">>
            /\ MalformedRbac(k.rbac) => RbacEvents(events') = {}]_vars

\* C24: whenever CONNACK carries an MCP-RBAC property that parses as JSON,
\* connect() emits exactly one brokerRbacInfo event with the parsed value,
\* whatever the MCP-SERVER-NAME-FILTERS property is.
C24_RbacEventWhateverFilters ==
  [][\A k \in Connacks :
       (ClientConnected(k) /\ k.rbac.present /\ k.rbac.parses)
         => /\ Cardinality(RbacEvents(events')) = 1
            /\ \A i \in RbacEvents(events') : events'[i].method = k.rbac.value]_vars

\* Two objects that give the same value for every key
SameObject(p, q) == \A k \in Keys(p) \cup Keys(q) : Lookup(p, k) = Lookup(q, k)

\* C26: createRequest(method, params) returns an envelope with jsonrpc "2.0",
\* the generated id, the given method, and a params member that is there
\* exactly when params was supplied; JSON.stringify followed by JSON.parse
\* gives back the same id, method and params.
C26_CreateRequestRoundTrip ==
  (call.fn = "createRequest" /\ ret # NoRet) =>
    LET request == ret.envelope
        decoded == ret.decoded
    IN
    /\ request.jsonrpc = "2.0"
    /\ request.id = call.id
    /\ request.method = call.method
    /\ request.hasParams <=> call.params.given
    /\ call.params.given => request.params = call.params.obj
    /\ decoded.id = call.id
    /\ decoded.method = call.method
    /\ decoded.hasParams <=> call.params.given
    /\ SameObject(decoded.params, request.params)

\* A request with params whose keys are also keys of the envelope, decoded
C26_Witness ==
  /\ call.fn = "createRequest" /\ ret # NoRet
  /\ call.params.given /\ Keys(call.params.obj) = {"id", "method"}
  /\ ret.decoded.id = "V1StGXR8" /\ ret.decoded.params = call.params.obj

\* C27: createResponse(id, result, error) returns an envelope with jsonrpc
\* "2.0" and the given id; result is there exactly when a result was given
\* and error exactly when an error was given, so a success response has no
\* error member and an error response has no result member.
C27_ResponseMembers ==
  (call.fn = "createResponse" /\ ret # NoRet) =>
    LET response == ret.envelope IN
    /\ response.jsonrpc = "2.0"
    /\ response.id = call.id
    /\ response.hasResult <=> call.result # Undefined
    /\ response.hasResult => response.result = call.result
    /\ response.hasError <=> call.error # Undefined
    /\ response.hasError => response.error = call.error
    /\ (call.result # Undefined /\ call.error = Undefined) => ~response.hasError
    /\ (call.error # Undefined /\ call.result = Undefined) => ~response.hasResult

\* A success response whose result is a value that counts as false
C27_Witness ==
  /\ call.fn = "createResponse" /\ ret # NoRet
  /\ call.result = "0" /\ call.error = Undefined
  /\ ret.envelope.hasResult /\ ~ret.envelope.hasError

\* C28: the timeout of a request is 10000 ms for ping, 60000 ms for tools/call,
\* sampling/createMessage and completion/complete, and 30000 ms for every
\* other method, those the table does not list included.
C28_TimeoutByMethod ==
  (call.fn = "getRequestTimeout" /\ ret # NoRet) =>
    ret.value =
      (IF call.method = "ping" THEN 10000
       ELSE IF call.method \in {"tools/call", "sampling/createMessage",
                                "completion/complete"}
       THEN 60000 ELSE 30000)

\* The timeout of a method the table does not list
C28_Witness ==
  /\ call.fn = "getRequestTimeout" /\ ret # NoRet
  /\ call.method = "resources/unsubscribe" /\ ret.value = 30000

\* The tools/list requests of the client that have succeeded
ListedOk == {id \in 1..Len(reqs) :
               reqs[id].method = "tools/list" /\ reqs[id].outcome = "success"}

\* C25: two listTools calls that both succeed return the same set of tool
\* definitions when no tool() registration happened on the server between the
\* handling of the first request and the handling of the second, whatever
\* else is interleaved.
C25_ListToolsIsStable ==
  \A pair \in listed.pairs :
    (pair[1] \in ListedOk /\ pair[2] \in ListedOk)
      => reqs[pair[1]].detail.list = reqs[pair[2]].detail.list

\* Two listings of a registry that holds a tool, with no registration between
C25_Witness ==
  /\ <<2, 3>> \in listed.pairs /\ {2, 3} \subseteq ListedOk
  /\ reqs[2].detail.list = {"add"}
  /\ reqs[3].detail.list = {"add"}

ControlSub == [filter |-> ControlTopic(ServerId, ServerName), nl |-> FALSE]
RpcSub == [filter |-> RpcPattern(ServerId, ServerName), nl |-> TRUE]

OnlinePresence ==
  Packet("server", PresenceTopic(ServerId, ServerName), OnlinePayload(ServerName),
         TRUE, ServerProps)

Emits(out, name) == \E i \in 1..Len(out) : out[i].name = name

ServerSubscribed(b, filter) == \E sub \in b.subs["server"] : sub.filter = filter

\* C31: the handler of a message on $mcp-client/presence/{client_id} removes
\* client_id from connectedClients whatever the payload is; it leaves the
\* subscriptions alone unless the payload is a valid notifications/disconnected,
\* and then it drops the capability subscription of that client at once and the
\* presence subscription of that client when it resumes.
C31_PresenceEvicts ==
  [][/\ \A pkt \in EnvPresenceToServer :
          LET p == pkt.payload
              cid == Part(pkt.topic, 2)
              valid == /\ p.raw = "json" /\ p.jsonrpc = "2.0"
                       /\ p.method = "notifications/disconnected"
          IN
          (/\ ServerHandlesNext(pkt) /\ ServerReceive
           /\ StartsWith(pkt.topic, <<"$mcp-client", "presence">>)) =>
             /\ connectedClients' = connectedClients \ {cid}
             /\ ~valid => broker'.subs = broker.subs /\ handlers' = handlers
             /\ valid /\ adapter["server"] =>
                  /\ ~ServerSubscribed(broker', ClientCapabilityTopic(cid))
                  /\ \A c \in ClientIds \ {cid} :
                       ServerSubscribed(broker', ClientCapabilityTopic(c))
                         <=> ServerSubscribed(broker, ClientCapabilityTopic(c))
                  /\ [kind |-> "presence", cid |-> cid, pc |-> "unsub_presence"]
                       \in handlers'
     /\ ServerResume =>
          \A sub \in broker.subs["server"] \ broker'.subs["server"] :
            \E h \in handlers \ handlers' :
              /\ h.kind = "presence"
              /\ sub.filter = ClientPresenceTopic(h.cid)]_vars

\* The first client was evicted by a payload that is not a disconnected
\* notification: it is not connected, nothing is suspended and the server
\* still holds both of its subscriptions
C31_Witness ==
  /\ isInitialized
  /\ "C1" \notin connectedClients
  /\ handlers = {}
  /\ ServerSubscribed(broker, ClientCapabilityTopic("C1"))
  /\ ServerSubscribed(broker, ClientPresenceTopic("C1"))


\* C32: when the client handles a message on an RPC topic that has a method and
\* whose id is not the id of a pending request, then, if the message is a valid
\* notifications/disconnected, the server id of the topic leaves
\* connectedServers, discoveredServers stays as it is and the one event emitted
\* is serverDisconnected with that server id; otherwise the one event emitted
\* is serverNotification and neither table nor the registry changes.
C32_DisconnectedOnRpcTopic ==
  [][\A pkt \in EnvRpcToClient :
       LET p == pkt.payload
           sid == Part(pkt.topic, 2)
           valid == p.jsonrpc = "2.0" /\ p.method = "notifications/disconnected"
       IN
       (/\ ClientHandlesNext(pkt) /\ ClientReceive
        /\ p.method # "" /\ p.id \notin pendingRequests) =>
          /\ discoveredServers' = discoveredServers
          /\ pendingRequests' = pendingRequests /\ reqs' = reqs
          /\ IF valid
             THEN /\ connectedServers' = MapDelete(connectedServers, sid)
                  /\ events' = <<Event("serverDisconnected", sid, "")>>
             ELSE /\ connectedServers' = connectedServers
                  /\ events' = <<Event("serverNotification", "", p.method)>>]_vars

\* The connected server has just left connectedServers on a disconnected
\* notification: it is still discovered
C32_Witness ==
  /\ events = <<Event("serverDisconnected", ServerId, "")>>
  /\ ServerId \in DOMAIN discoveredServers
  /\ ServerId \notin DOMAIN connectedServers
  /\ \E id \in 1..Len(reqs) :
       reqs[id].method = "initialize" /\ reqs[id].outcome = "success"


\* C33: while the handler of a call is suspended, the listener takes whatever
\* the broker has for the server: a request whose handling does not wait is
\* answered with one response carrying its id on its own topic, a valid
\* initialize request is answered on the RPC topic of its client, a presence
\* message evicts its client, and a call whose handler waits is suspended with
\* the client id and the request id of its packet. When a suspended call
\* settles, in whatever order, the one response published carries the request
\* id of that call and goes to the RPC topic of the client of that call.
C33_HandlersDoNotBlock ==
  /\ [](broker.inbox["server"] # <<>> => ENABLED ServerReceive)
  /\ [][/\ \A pkt \in EnvCallsToServer :
            LET p == pkt.payload IN
            (ServerHandlesNext(pkt) /\ SuspendedCalls # {}) =>
               /\ (ServerReceive /\ StartsWith(pkt.topic, <<"$mcp-rpc">>)) =>
                    OneResponse(pubs', pkt.topic, p.id)
               /\ (/\ ServerReceive
                   /\ pkt.topic = ControlTopic(ServerId, ServerName)
                   /\ CompId \in DOMAIN pkt.props) =>
                    /\ OneResponse(pubs', RpcTopic(pkt.props[CompId], ServerId,
                                                   ServerName), p.id)
                    /\ isInitialized'
               /\ (/\ ServerReceive
                   /\ StartsWith(pkt.topic, <<"$mcp-client", "presence">>)) =>
                    connectedClients' = connectedClients \ {Part(pkt.topic, 2)}
               /\ ServerReceiveCall =>
                    \E h \in SuspendedCalls' :
                      /\ h.cid = Part(pkt.topic, 1) /\ h.id = p.id
                      /\ SuspendedCalls' = SuspendedCalls \cup {h}
        /\ ServerResumeCall =>
             \E h \in SuspendedCalls \ SuspendedCalls' :
               /\ SuspendedCalls' = SuspendedCalls \ {h}
               /\ OneResponse(pubs', RpcTopic(h.cid, ServerId, ServerName), h.id)]_vars

\* The second request of a client is answered while its first is suspended,
\* and so is a request of the other client
C33_Witness ==
  /\ \E h \in SuspendedCalls : h.cid = "C1" /\ h.id = 1
  /\ Len(pubs) = 1
  /\ pubs[1].topic = RpcTopic("C1", ServerId, ServerName)
  /\ pubs[1].payload.id = 2
  /\ pubs[1].payload.result = "content"


\* C34: the response to a request on the RPC topic is decided by the request
\* and the registered tools alone, whether or not the client id of the topic
\* is in connectedClients (never initialized, or evicted): a ping is answered
\* with pong, a call of a registered tool with what its handler returns or an
\* error, a call of an unregistered tool with -32001; and neither the handling
\* of the request nor the completion of a suspended call changes
\* connectedClients.
C34_DispatcherIgnoresConnectedClients ==
  [][/\ \A pkt \in EnvCallsToServer :
          LET p == pkt.payload
              answer == pubs'[1].payload
          IN
          (/\ ServerHandlesNext(pkt) /\ ServerReceive
           /\ StartsWith(pkt.topic, <<"$mcp-rpc">>)) =>
             /\ OneResponse(pubs', pkt.topic, p.id)
             /\ connectedClients' = connectedClients
             /\ p.method = "ping" =>
                  answer.result = "pong" /\ answer.error = NoError
             /\ p.method = "tools/call" /\ p.params[1] \notin tools =>
                  answer.result = "" /\ answer.error = -32001
             /\ p.method = "tools/call" /\ p.params[1] \in tools =>
                  IF handlerRan'.kind = "returns"
                  THEN answer.result = "content" /\ answer.error = NoError
                  ELSE answer.result = "" /\ answer.error # NoError
     /\ ServerReceiveCall \/ ServerResumeCall =>
          connectedClients' = connectedClients]_vars

\* A tool call of the second client is answered with the tool's result while
\* the first client is the only one connected
C34_Witness ==
  /\ connectedClients = {"C1"}
  /\ Len(pubs) = 1
  /\ pubs[1].topic = RpcTopic("C2", ServerId, ServerName)
  /\ pubs[1].payload.result = "content"
  /\ \A sub \in broker.subs["server"] :
       sub.filter \notin {ClientCapabilityTopic("C2"), ClientPresenceTopic("C2")}
  /\ \A h \in handlers : h.cid # "C2"


\* C35: when the client handles a message on an RPC topic whose id is the id of
\* a pending request, that request leaves the registry and gets its outcome,
\* success or the McpError of the message, whichever server id and server name
\* the topic carries and whichever server the request was sent to; nothing is
\* emitted, and a successful initialize registers the server of the request.
C35_CorrelatesByIdAlone ==
  [][\A pkt \in EnvRpcToClient :
       LET p == pkt.payload IN
       (/\ ClientHandlesNext(pkt) /\ ClientReceive
        /\ p.id \in pendingRequests) =>
          /\ pendingRequests' = pendingRequests \ {p.id}
          /\ reqs[p.id].outcome = "none"
          /\ reqs'[p.id].outcome =
               IF p.error = NoError THEN "success" ELSE "mcp_error"
          /\ \A id \in 1..Len(reqs) : id # p.id => reqs'[id] = reqs[id]
          /\ events' = <<>>
          /\ (/\ reqs[p.id].method = "initialize"
              /\ p.error = NoError /\ p.result = "init") =>
               reqs[p.id].sid \in DOMAIN connectedServers']_vars

\* A request sent to the one server the client knows has succeeded on a
\* response that came on the topic of another server
C35_Witness ==
  /\ \E id \in 1..Len(reqs) :
       /\ reqs[id].method = "ping"
       /\ reqs[id].sid = ServerId
       /\ reqs[id].outcome = "success"
  /\ ServerId \in DOMAIN connectedServers


\* The listener handles an initialize request that carries a client id and
\* passes InitializeRequestSchema
HandlesValidInitialize ==
  /\ ServerReceive
  /\ LET pkt == Head(broker.inbox["server"]) IN
     /\ pkt.topic = ControlTopic(ServerId, ServerName)
     /\ CompId \in DOMAIN pkt.props
     /\ pkt.payload.raw = "json" /\ pkt.payload.jsonrpc = "2.0"
     /\ pkt.payload.method = "initialize" /\ pkt.payload.id > 0
     /\ pkt.payload.params = <<"init">>

HandlesInvalidInitialize ==
  /\ ServerReceive
  /\ LET pkt == Head(broker.inbox["server"]) IN
     /\ pkt.topic = ControlTopic(ServerId, ServerName)
     /\ CompId \in DOMAIN pkt.props
     /\ pkt.payload.raw = "json"
     /\ pkt.payload.method = "initialize" /\ pkt.payload.id > 0
     /\ pkt.payload.jsonrpc # "2.0" \/ pkt.payload.params # <<"init">>

\* C37: the handling of an initialize request that carries a client id and an
\* id but fails schema validation publishes nothing, leaves the subscriptions,
\* connectedClients, isInitialized and the suspended handlers as they were; the
\* initializeServer call that sent it gets no other outcome than a timeout, and
\* it gets that one.
C37_InvalidInitializeIsDropped ==
  /\ [][HandlesInvalidInitialize =>
          /\ pubs' = <<>>
          /\ broker'.subs = broker.subs
          /\ broker'.retained = broker.retained
          /\ broker'.inbox["client"] = broker.inbox["client"]
          /\ UNCHANGED <<connectedClients, isInitialized, handlers>>]_vars
  /\ [](\A id \in 1..Len(reqs) : reqs[id].outcome \in {"none", "timeout"})
  /\ \A id \in 1..MaxReq :
       (Len(reqs) >= id) ~> (Len(reqs) >= id /\ reqs[id].outcome = "timeout")

\* The server has taken the request from its inbox and is as it was after
\* start(); the request has timed out
C37_Witness ==
  /\ sPc = "ready"
  /\ broker.inbox["server"] = <<>>
  /\ ~isInitialized /\ connectedClients = {} /\ handlers = {}
  /\ Len(reqs) >= 1
  /\ reqs[1].method = "initialize"
  /\ reqs[1].outcome = "timeout"
  /\ reqs[1].detail.ms = 30000


\* The client's listener handles a response, on an RPC topic, to request id,
\* which has ended by its timer, by disconnect() or by a failed publish
HandlesLateResponse(id) ==
  /\ ClientReceive
  /\ Len(reqs) >= id
  /\ reqs[id].outcome \in {"timeout", "cancelled", "publish_failed"}
  /\ LET pkt == Head(broker.inbox["client"]) IN
     /\ StartsWith(pkt.topic, <<"$mcp-rpc">>)
     /\ pkt.payload.raw = "json"
     /\ pkt.payload.method = ""
     /\ pkt.payload.id = id

\* C38: the handling of a response to a request that has already ended by
\* timeout, cancellation or publish failure leaves every request with the
\* outcome it had, emits and publishes nothing, and changes neither the pending
\* registry nor discoveredServers nor connectedServers.
C38_LateResponseIsIgnored ==
  [][\A id \in 1..MaxReq :
       HandlesLateResponse(id) =>
         /\ reqs' = reqs
         /\ pendingRequests' = pendingRequests
         /\ events' = <<>> /\ pubs' = <<>>
         /\ discoveredServers' = discoveredServers
         /\ connectedServers' = connectedServers]_vars

\* The tools/call request timed out, the tool's handler returned afterwards or
\* before, and the client has taken the response from its inbox
C38_Witness ==
  /\ Len(reqs) = 2
  /\ reqs[1].outcome = "success"
  /\ reqs[2].method = "tools/call"
  /\ reqs[2].outcome = "timeout"
  /\ reqs[2].pub = "inflight"
  /\ handlerRan.kind = "returns"
  /\ handlers = {}
  /\ broker.inbox["client"] = <<>>
  /\ broker.inbox["server"] = <<>>


\* The last registration of this kind and key among the calls
LastRegistration(regs, kind, key) ==
  LET at == {i \in 1..Len(regs) : regs[i].kind = kind /\ regs[i].key = key} IN
  regs[CHOOSE i \in at : \A j \in at : j <= i]

\* C39: after a sequence of tool() and resource() calls, tools/list holds one
\* definition for each tool name registered and no other, resources/list one
\* for each uri registered and no other; the definition listed and the handler
\* kept for a name or uri are those of its last registration; and the set of
\* registered names and uris after a call contains the set before it.
C39_OneDefinitionPerName ==
  (call.fn = "register" /\ ret # NoRet) =>
    LET regs == call.regs
        named(kind) == {regs[i].key : i \in {j \in 1..Len(regs) : regs[j].kind = kind}}
        unique(list) == \A i, j \in 1..Len(list) : list[i].key = list[j].key => i = j
    IN
    /\ unique(ret.tools) /\ unique(ret.resources)
    /\ {ret.tools[i].key : i \in 1..Len(ret.tools)} = named("tool")
    /\ {ret.resources[i].key : i \in 1..Len(ret.resources)} = named("resource")
    /\ \A i \in 1..Len(ret.tools) :
         LET last == LastRegistration(regs, "tool", ret.tools[i].key) IN
         /\ ret.tools[i].description = last.version
         /\ ret.toolHandler[ret.tools[i].key] = last.version
    /\ \A i \in 1..Len(ret.resources) :
         LET last == LastRegistration(regs, "resource", ret.resources[i].key) IN
         /\ ret.resources[i].description = last.version
         /\ ret.resourceHandler[ret.resources[i].key] = last.version
    /\ \A i \in 1..(Len(ret.keys) - 1) : ret.keys[i] \subseteq ret.keys[i + 1]

\* A tool registered twice, with another tool registered in between: two
\* definitions are listed, the first with its second description
C39_Witness ==
  /\ call.fn = "register" /\ ret # NoRet
  /\ Len(call.regs) = 3
  /\ call.regs[1] = [kind |-> "tool", key |-> "add", version |-> 1]
  /\ call.regs[2] = [kind |-> "tool", key |-> "sub", version |-> 1]
  /\ call.regs[3] = [kind |-> "tool", key |-> "add", version |-> 2]
  /\ Len(ret.tools) = 2
  /\ ret.tools[1] = [key |-> "add", description |-> 2]
  /\ ret.toolHandler["add"] = 2


\* The client's listener handles a message that takes a server out of
\* connectedServers: an empty presence message, or a disconnected notification
\* on the RPC topic
DropsServer(sid) ==
  /\ ClientReceive
  /\ sid \in DOMAIN connectedServers
  /\ sid \notin DOMAIN connectedServers'

\* The client's listener handles a message on an RPC topic that carries the id
\* of the pending request id
ResponseArrives(id) ==
  /\ ClientReceive
  /\ LET pkt == Head(broker.inbox["client"]) IN
       /\ StartsWith(pkt.topic, <<"$mcp-rpc">>)
       /\ Parses(pkt.payload)
       /\ IdTruthy(pkt.payload)
       /\ pkt.payload.id = id

\* A request of an RPC method that is pending while its server is not in
\* connectedServers: sendRpcRequest registers a request only for a server
\* that is there, so the server was dropped after the request was made
PendingToDropped(id) ==
  /\ id \in 1..Len(reqs)
  /\ id \in pendingRequests
  /\ reqs[id].method \in RpcMethods
  /\ reqs[id].sid \notin DOMAIN connectedServers

\* What the step that drops a server leaves alone, and the time a pending
\* request has left
SurvivesDrop ==
  /\ [][\A sid \in TopicServerIds :
          DropsServer(sid) => pendingRequests' = pendingRequests /\ reqs' = reqs]_vars
  /\ [](\A id \in pendingRequests :
          /\ reqs[id].outcome = "none"
          /\ reqs[id].timer = "armed"
          /\ reqs[id].elapsed < getRequestTimeout(reqs[id].method) + TickMs)
  /\ \A id \in 1..MaxReq :
       PendingToDropped(id) ~>
         (/\ id \in 1..Len(reqs)
          /\ id \notin pendingRequests
          /\ reqs[id].outcome \in Outcomes)

\* C40 as stated: the step that drops a server from connectedServers leaves
\* the pending registry and every request as they were; a request that is
\* pending after its server was dropped leaves the pending registry only in
\* the step that handles a response with its id, in the step of its own
\* timer, or in the step of disconnect() that clears the registry; and a
\* pending request has an armed timer that has run for the
\* timeout of its method at most (to the granularity of time, TickMs), so a
\* request whose server was dropped gets its outcome.
C40_PendingSurvivesServerLoss ==
  /\ SurvivesDrop
  /\ [][\A id \in pendingRequests :
          (PendingToDropped(id) /\ id \notin pendingRequests') =>
            \/ ResponseArrives(id)
            \/ TimerFire(id)
            \/ \E will \in BOOLEAN : DisconnectClear(will)]_vars

\* C40 with the publish failure: the step that drops a server leaves the
\* pending registry and every request as they were; a pending request,
\* whether its server is in connectedServers or not, leaves the registry only
\* in the step that handles a response with its id, in the step of its own
\* timer, in the step in which the MQTT client reports its publish as failed,
\* or in the step of disconnect() that clears the registry; and it gets its
\* outcome within the timeout of its method.
C40_PendingSurvivesServerLossOrPublishFails ==
  /\ SurvivesDrop
  /\ [][\A id \in pendingRequests :
          id \notin pendingRequests' =>
            \/ ResponseArrives(id)
            \/ TimerFire(id)
            \/ PublishFail(id)
            \/ \E will \in BOOLEAN : DisconnectClear(will)]_vars

\* A tools/call request still pending, a part of its timeout gone, with its
\* server dropped from connectedServers
C40_Witness ==
  \E id \in 1..Len(reqs) :
    /\ PendingToDropped(id)
    /\ reqs[id].method = "tools/call"
    /\ reqs[id].elapsed > 0

====
